---- MODULE Spec2Model ----
(***************************************************************************)
(* fast-fs-hash: the parallel file-hash engine (HashFilesWorker), the      *)
(* async workers that drive it, and the FileHashCache lifecycle.           *)
(***************************************************************************)
EXTENDS Integers, Sequences, FiniteSets, Bags, TLC

VARIABLES
  fs,        \* the file system: path -> file
  hwRaw,     \* std::thread::hardware_concurrency() of the machine
  gActive,   \* g_active_hash_threads
  inv,       \* the engine invocations (one async worker each)
  disk,      \* the cache file on disk: absent, or its sections
  cache,     \* the FileHashCache object: its configuration and fields
  vop,       \* the validate call in flight: its locals and its position
  res,       \* what the last cache operation returned or threw
  hist,      \* history: what the validated, written and loaded states were computed from
  io,        \* the cache's file handles, the temporary file and the write in flight
  init,      \* the backends' module state and the init calls in flight
  codec,     \* a path buffer and what its consumers make of it
  hasher,    \* a hasher instance, the bulk calls on it and their results
  manager    \* the FileHashCacheManager: the options given and its fields

engineVars == <<hwRaw, gActive, inv>>
cacheVars == <<disk, cache, vop, res, hist>>
libVars == <<io, init, codec, hasher, manager>>
vars == <<fs, hwRaw, gActive, inv, disk, cache, vop, res, hist, io, init, codec, hasher, manager>>

----------------------------------------------------------------------------
(* Bounds of the model *)

NumInvocations == 2
MaxEdits == 1

(* Program constants *)

READ_BUFFER_SIZE == 262144
MAX_STACK_THREADS == 16
MIN_WORK_BATCH == 1
MAX_WORK_BATCH == 32

----------------------------------------------------------------------------
(* Paths are strings: sequences of characters, 0 being NUL. *)

NUL == 0
EmptyPath == << >>
PSmall == <<1>>
PZero == <<2>>
PExact == <<3>>
PLarge == <<4>>
PLargeErr == <<5>>
PNoOpen == <<6>>
PReadFail == <<7>>
PSmall2 == <<8>>

NoFile ==
  [exists |-> FALSE, canOpen |-> FALSE, size |-> 0, data |-> 0, errAt |-> -1,
   ino |-> 0, mtimeNs |-> 0, ctimeNs |-> 0]

RegularFile(id, sz) ==
  [exists |-> TRUE, canOpen |-> TRUE, size |-> sz, data |-> id, errAt |-> -1,
   ino |-> id, mtimeNs |-> 1, ctimeNs |-> 1]

(* The files the engine runs are given: small, empty, exactly one buffer,  *)
(* several buffers, a read error after the first buffer, a file that does  *)
(* not open, a file whose first read fails.                                *)
EngineFiles ==
  (PSmall :> RegularFile(1, 12)) @@
  (PZero :> RegularFile(2, 0)) @@
  (PExact :> RegularFile(3, READ_BUFFER_SIZE)) @@
  (PLarge :> RegularFile(4, 2 * READ_BUFFER_SIZE + 7)) @@
  (PLargeErr :> [RegularFile(5, 3 * READ_BUFFER_SIZE) EXCEPT !.errAt = READ_BUFFER_SIZE]) @@
  (PNoOpen :> [RegularFile(6, 9) EXCEPT !.canOpen = FALSE]) @@
  (PReadFail :> [RegularFile(7, 9) EXCEPT !.errAt = 0]) @@
  (PSmall2 :> RegularFile(8, 14))

FileAt(path) == IF path \in DOMAIN fs THEN fs[path] ELSE NoFile

----------------------------------------------------------------------------
(* XXH3-128.  A digest is named by the bytes hashed: the content and the   *)
(* number of its leading bytes; the hash of no bytes is one value.         *)

ZeroHash == <<"zero", 0, 0>>
Uninit == <<"uninit", 0, 0>>

XXH3_128bits(data, len) == IF len = 0 THEN <<"xxh", 0, 0>> ELSE <<"xxh", data, len>>

Min(a, b) == IF a < b THEN a ELSE b
Max(a, b) == IF a > b THEN a ELSE b

(* FileHandle::read at file position pos: bytes read, 0 at EOF, -1 on error *)
FileRead(f, pos, len) ==
  IF f.errAt = pos THEN -1 ELSE Min(f.size - pos, len)


(* a read error taken for the end of the file *)
RECURSIVE hash_large_file_error_as_eof(_, _, _)
hash_large_file_error_as_eof(f, pos, fed) ==
  LET n == FileRead(f, pos, READ_BUFFER_SIZE) IN
  IF n <= 0
    THEN XXH3_128bits(f.data, fed)
    ELSE hash_large_file_error_as_eof(f, pos + n, fed + n)

(* hash_large_file: the streaming state has been fed `fed` bytes *)
RECURSIVE hash_large_file(_, _, _)
hash_large_file(f, pos, fed) ==
  LET n == FileRead(f, pos, READ_BUFFER_SIZE) IN
  IF n <= 0
    THEN IF n = 0 THEN XXH3_128bits(f.data, fed) ELSE ZeroHash
    ELSE hash_large_file(f, pos + n, fed + n)

(* The body of process_files' inner loop for one path: the value of dest *)
HashOneFile(path) ==
  IF path = EmptyPath THEN ZeroHash
  ELSE LET f == FileAt(path) IN
    IF ~f.canOpen THEN ZeroHash
    ELSE LET n == FileRead(f, 0, READ_BUFFER_SIZE) IN
      IF n < 0 THEN ZeroHash
      ELSE IF n < READ_BUFFER_SIZE THEN XXH3_128bits(f.data, n)
      ELSE hash_large_file(f, READ_BUFFER_SIZE, READ_BUFFER_SIZE)

----------------------------------------------------------------------------
(* HashFilesWorker::run: the thread count and the batch size *)

HardwareParallelism(raw) == IF raw < 2 THEN 2 ELSE raw

RequestedThreads(concurrency, hw) ==
  LET t == IF concurrency > 0 THEN concurrency ELSE hw
      c == IF t > MAX_STACK_THREADS THEN MAX_STACK_THREADS ELSE t
  IN IF c < 1 THEN 1 ELSE c

Budget(hw, active) ==
  LET budget == hw - active IN IF budget < 1 THEN 1 ELSE budget

BudgetedThreads(concurrency, hw, active) ==
  LET tc == RequestedThreads(concurrency, hw)
      budget == Budget(hw, active)
  IN IF tc > budget THEN budget ELSE tc


(* a batch with no upper bound *)
WorkBatchUncapped(file_count, tc) ==
  LET batch == file_count \div (tc * 4) IN
  IF batch < MIN_WORK_BATCH THEN MIN_WORK_BATCH ELSE batch

WorkBatch(file_count, tc) ==
  LET batch == file_count \div (tc * 4) IN
  IF batch < MIN_WORK_BATCH THEN MIN_WORK_BATCH
  ELSE IF batch > MAX_WORK_BATCH THEN MAX_WORK_BATCH ELSE batch

UsefulThreads(tc, file_count, batch) ==
  LET max_useful == (file_count + batch - 1) \div batch
      t == IF tc > max_useful THEN max_useful ELSE tc
  IN IF t < 1 THEN 1 ELSE t


(* no floor of one thread *)
ThreadCountNoFloor(concurrency, raw, active, file_count) ==
  LET hw == HardwareParallelism(raw)
      req == RequestedThreads(concurrency, hw)
      tc == IF req > hw - active THEN hw - active ELSE req
      batch == WorkBatch(file_count, IF tc < 1 THEN 1 ELSE tc)
      max_useful == (file_count + batch - 1) \div batch
  IN IF tc > max_useful THEN max_useful ELSE tc

ThreadCount(concurrency, raw, active, file_count) ==
  LET hw == HardwareParallelism(raw)
      tc == BudgetedThreads(concurrency, hw, active)
  IN UsefulThreads(tc, file_count, WorkBatch(file_count, tc))

BatchSize(concurrency, raw, active, file_count) ==
  WorkBatch(file_count, BudgetedThreads(concurrency, HardwareParallelism(raw), active))


(* a batch that runs one file into the next batch *)
BatchEndOverlapping(base, wb, fc) == IF base + wb + 1 < fc THEN base + wb + 1 ELSE fc

(* process_files: the end of the batch claimed at base, and the slot of a file *)
BatchEnd(base, wb, fc) == IF base + wb < fc THEN base + wb ELSE fc


(* a slot one place off *)
DestSlotOffByOne(idx) == IF idx > 0 THEN idx - 1 ELSE idx

DestSlot(idx) == idx

----------------------------------------------------------------------------
(* The engine's invocations *)

Invocations == 1 .. NumInvocations

IdleInvocation ==
  [pc |-> "idle", files |-> << >>, concurrency |-> 0, tc |-> 0,
   work_batch |-> 0, next_index |-> 0, out |-> << >>, claimed |-> << >>,
   thr |-> EmptyBag, runResult |-> "none", settled |-> "pending",
   slab |-> "none", left |-> 0, slabLen |-> 0, rbufs |-> << >>, touched |-> 0,
   fetches |-> 0]

FileCount(i) == Len(inv[i].files)

(* Execute: the path index is built and the output buffer allocated; with  *)
(* no file the engine is not entered.                                      *)
Call(i, files, concurrency) ==
  /\ inv[i].pc = "idle"
  /\ inv' = [inv EXCEPT ![i] =
       [IdleInvocation EXCEPT
          !.pc = IF Len(files) > 0 THEN "execute" ELSE "returned",
          !.files = files,
          !.concurrency = concurrency,
          !.out = [k \in 0 .. Len(files) - 1 |-> Uninit],
          !.claimed = [k \in 0 .. Len(files) - 1 |-> 0],
          !.runResult = IF Len(files) > 0 THEN "none" ELSE "notrun"]]
  /\ UNCHANGED <<fs, hwRaw, gActive, cacheVars, libVars>>

(* Execute: the output buffer cannot be allocated *)
CallOutOfMemory(i, files, concurrency) ==
  /\ inv[i].pc = "idle"
  /\ Len(files) > 0
  /\ inv' = [inv EXCEPT ![i] =
       [IdleInvocation EXCEPT
          !.pc = "settled", !.files = files, !.concurrency = concurrency,
          !.settled = "rejected: out of memory"]]
  /\ UNCHANGED <<fs, hwRaw, gActive, cacheVars, libVars>>

(* run, up to the slab allocation: one load of the global counter *)
RunSize(i) ==
  /\ inv[i].pc = "execute"
  /\ inv' = [inv EXCEPT ![i] =
       [@ EXCEPT
          !.pc = "sized",
          !.tc = ThreadCount(inv[i].concurrency, hwRaw, gActive, FileCount(i)),
          !.work_batch = BatchSize(inv[i].concurrency, hwRaw, gActive, FileCount(i)),
          !.next_index = 0]]
  /\ UNCHANGED <<fs, hwRaw, gActive, cacheVars, libVars>>

(* the slab is looked at only after the counter has been raised *)
RunSlabFailAfterAdd(i) ==
  /\ inv[i].pc = "sized"
  /\ gActive' = gActive + inv[i].tc
  /\ inv' = [inv EXCEPT ![i] =
       [@ EXCEPT !.pc = "returned", !.runResult = "false",
                 !.tc = 0, !.work_batch = 0, !.next_index = 0]]
  /\ UNCHANGED <<fs, hwRaw, cacheVars, libVars>>

(* run: the slab cannot be allocated, run returns false *)
RunSlabFail(i) ==
  /\ inv[i].pc = "sized"
  /\ inv' = [inv EXCEPT ![i] =
       [@ EXCEPT !.pc = "returned", !.runResult = "false",
                 !.tc = 0, !.work_batch = 0, !.next_index = 0]]
  /\ UNCHANGED <<fs, hwRaw, gActive, cacheVars, libVars>>

(* run: the counter is raised, tc - 1 threads are spawned and the calling  *)
(* thread is the remaining one.  The threads run the same code on the same *)
(* worker, so the state holds how many threads are at each position: thr   *)
(* is a bag of thread positions.                                           *)
SpawnAdd(tc) == tc

Spawned(tc) == tc - 1


(* the calling thread does not take part *)
WorkerThreadsSpawnedOnly(tc) == Spawned(tc)

(* one thread too many is spawned *)
WorkerThreadsOneMore(tc) == Spawned(tc) + 2

WorkerThreads(tc) == Spawned(tc) + 1

AtClaim == [pc |-> "claim", idx |-> 0, batch_end |-> 0]
AtExit == [pc |-> "exit", idx |-> 0, batch_end |-> 0]

BagOf(position, n) == IF n > 0 THEN [p \in {position} |-> n] ELSE EmptyBag

(* the slab: AlignedPtr<unsigned char> slab(64, tc * READ_BUFFER_SIZE) *)
SlabBytes(tc) == tc * READ_BUFFER_SIZE

(* the spawned threads start at the slab's first byte *)
SpawnedSliceFromZero(i) == i * READ_BUFFER_SIZE

(* rbuf_raw of spawned thread i, as an offset from slab.ptr *)
SpawnedSlice(i) == (i + 1) * READ_BUFFER_SIZE

(* rbuf_raw of every thread in the order of the spawn loop, the calling    *)
(* thread first: process_files(slab.ptr)                                   *)
ReadBuffers(tc) == <<0>> \o [k \in 1 .. Spawned(tc) |-> SpawnedSlice(k - 1)]

(* the bytes from rbuf on that hashing a file reads or writes: those of    *)
(* the first file.read(rbuf, READ_BUFFER_SIZE); no later read is longer    *)
Extent(path) ==
  IF path = EmptyPath \/ ~FileAt(path).canOpen THEN 0
  ELSE Max(0, FileRead(FileAt(path), 0, READ_BUFFER_SIZE))

RunSpawn(i) ==
  /\ inv[i].pc = "sized"
  /\ gActive' = gActive + SpawnAdd(inv[i].tc)
  /\ inv' = [inv EXCEPT ![i] =
       [@ EXCEPT !.pc = "running", !.slab = "allocated",
                 !.slabLen = SlabBytes(inv[i].tc),
                 !.rbufs = ReadBuffers(inv[i].tc),
                 !.thr = BagOf(AtClaim, WorkerThreads(inv[i].tc))]]
  /\ UNCHANGED <<fs, hwRaw, cacheVars, libVars>>

Positions(i) == BagToSet(inv[i].thr)

ThreadsOf(i) == BagCardinality(inv[i].thr)

Move(bag, from, to) == (bag (-) BagOf(from, 1)) (+) BagOf(to, 1)

(* the counter moves by one whatever the batch *)
fetch_add_one(value, arg) == value + 1

(* std::atomic fetch_add: the value the counter holds afterwards *)
fetch_add(value, arg) == value + arg

(* process_files: base = next_index.fetch_add(wb) *)
Claim(i) ==
  /\ inv[i].pc = "running"
  /\ AtClaim \in Positions(i)
  /\ LET base == inv[i].next_index
         wb == inv[i].work_batch
         fc == FileCount(i)
         batch_end == BatchEnd(base, wb, fc)
         to == IF base >= fc THEN AtExit
               ELSE IF base < batch_end
                 THEN [pc |-> "hash", idx |-> base, batch_end |-> batch_end]
                 ELSE AtClaim
     IN inv' = [inv EXCEPT ![i] =
          [@ EXCEPT
             !.next_index = fetch_add(base, wb),
             !.fetches = @ + 1,
             !.thr = Move(@, AtClaim, to),
             !.claimed = [k \in DOMAIN @ |->
                            IF base < fc /\ base <= k /\ k < batch_end THEN @[k] + 1 ELSE @[k]]]]
  /\ UNCHANGED <<fs, hwRaw, gActive, cacheVars, libVars>>

(* process_files: one iteration of the inner loop, by a thread at position p *)
HashFile(i, p) ==
  /\ inv[i].pc = "running"
  /\ p \in Positions(i)
  /\ p.pc = "hash"
  /\ LET next == p.idx + 1
         to == IF next < p.batch_end THEN [p EXCEPT !.idx = next] ELSE AtClaim
     IN inv' = [inv EXCEPT ![i] =
          [@ EXCEPT
             !.out[DestSlot(p.idx)] = HashOneFile(inv[i].files[p.idx + 1]),
             !.touched = Max(@, Extent(inv[i].files[p.idx + 1])),
             !.thr = Move(@, p, to)]]
  /\ UNCHANGED <<fs, hwRaw, gActive, cacheVars, libVars>>

(* run: every thread has joined, the counter is lowered, run returns true; *)
(* the worker's locals are gone                                            *)

(* run returns when the calling thread has left its own loop *)
JoinedCallerOnly(thr) == AtExit \in BagToSet(thr)

(* process_files of the calling thread has returned and threads[i].join()  *)
(* has returned for every spawned thread                                   *)
Joined(thr) == BagToSet(thr) \subseteq {AtExit}

(* the threads still inside process_files when run returns; the slab is    *)
(* freed by the destructor of AlignedPtr at that return                    *)
StillRunning(thr) == BagCardinality(thr) - CopiesIn(AtExit, thr)

(* the counter is lowered by the spawned threads only *)
JoinSubSpawned(tc) == tc - 1

JoinSub(tc) == tc

RunJoin(i) ==
  /\ inv[i].pc = "running"
  /\ Joined(inv[i].thr)
  /\ gActive' = gActive - JoinSub(inv[i].tc)
  /\ inv' = [inv EXCEPT ![i] =
       [@ EXCEPT !.pc = "returned", !.runResult = "true", !.thr = EmptyBag,
                 !.slab = "freed", !.left = StillRunning(inv[i].thr),
                 !.slabLen = 0, !.rbufs = << >>, !.touched = 0, !.fetches = 0,
                 !.tc = 0, !.work_batch = 0, !.next_index = 0]]
  /\ UNCHANGED <<fs, hwRaw, cacheVars, libVars>>

(* Execute after run (whose result it does not read), then OnOK *)
ExecuteOutcome(runResult) == "resolved"

Settle(i) ==
  /\ inv[i].pc = "returned"
  /\ inv' = [inv EXCEPT ![i] = [@ EXCEPT !.pc = "settled", !.settled = ExecuteOutcome(inv[i].runResult)]]
  /\ UNCHANGED <<fs, hwRaw, gActive, cacheVars, libVars>>

(* the worker is destroyed; the caller may call again *)
Return(i) ==
  /\ inv[i].pc = "settled"
  /\ inv' = [inv EXCEPT ![i] = IdleInvocation]
  /\ UNCHANGED <<fs, hwRaw, gActive, cacheVars, libVars>>

----------------------------------------------------------------------------
(* The cache file format (format.ts) and the path codec (functions.ts).    *)
(* A JavaScript string is a sequence of UTF-16 code units; a buffer is a   *)
(* sequence of encoded characters, one element per character.              *)

MAGIC == 105403206
HEADER_SIZE == 64

(* where a damaged cache file is cut *)
CutAt == 10

None == << >>
Some(v) == <<v>>

HasNul(p) == \E k \in 1 .. Len(p) : p[k] = NUL

IsLoneSurrogate(c) == c >= 55296 /\ c <= 57343

(* a code unit that is not part of a well-formed string comes out as U+FFFD *)
Utf8Unit(c) == IF IsLoneSurrogate(c) THEN 65533 ELSE c

(* bufferFrom(p, "utf-8") *)
Utf8Encode(p) == [k \in 1 .. Len(p) |-> Utf8Unit(p[k])]

(* buffer.toString("utf-8") *)
Utf8Decode(b) == [k \in 1 .. Len(b) |-> Utf8Unit(b[k])]

PSurrogate == <<55296>>
PReplacement == <<65533>>
PWithNul == <<9, 0, 8>>
PMissing == <<9>>

RECURSIVE serializePaths(_)
serializePaths(paths) ==
  IF paths = << >> THEN << >>
  ELSE Utf8Encode(Head(paths)) \o <<NUL>> \o serializePaths(Tail(paths))

(* parsePaths, with seg the bytes since the last separator *)
RECURSIVE parsePathsFrom(_, _)
parsePathsFrom(buf, seg) ==
  IF buf = << >> THEN (IF seg = << >> THEN << >> ELSE <<Utf8Decode(seg)>>)
  ELSE IF Head(buf) = NUL THEN <<Utf8Decode(seg)>> \o parsePathsFrom(Tail(buf), << >>)
  ELSE parsePathsFrom(Tail(buf), Append(seg, Head(buf)))

parsePaths(buf) == parsePathsFrom(buf, << >>)

(* every path written out as it is, NUL bytes included *)
RECURSIVE encodeFilePathsVerbatim(_)
encodeFilePathsVerbatim(paths) ==
  IF paths = << >> THEN << >>
  ELSE Utf8Encode(Head(paths)) \o <<NUL>> \o encodeFilePathsVerbatim(Tail(paths))

(* encodeFilePaths: a path holding a NUL is written as an empty segment *)
RECURSIVE encodeFilePaths(_)
encodeFilePaths(paths) ==
  IF paths = << >> THEN << >>
  ELSE (IF Len(Head(paths)) > 0 /\ ~HasNul(Head(paths)) THEN Utf8Encode(Head(paths)) ELSE << >>)
       \o <<NUL>> \o encodeFilePaths(Tail(paths))

(* PathIndex: one segment per NUL; bytes after the last NUL are skipped *)
RECURSIVE PathIndexFrom(_, _)
PathIndexFrom(buf, seg) ==
  IF buf = << >> THEN << >>
  ELSE IF Head(buf) = NUL THEN <<seg>> \o PathIndexFrom(Tail(buf), << >>)
  ELSE PathIndexFrom(Tail(buf), Append(seg, Head(buf)))

PathIndex(buf) == PathIndexFrom(buf, << >>)

(* decodeFilePaths: one string per NUL, and one for the bytes after the    *)
(* last NUL when there are any                                             *)
RECURSIVE decodeFilePathsFrom(_, _)
decodeFilePathsFrom(buf, seg) ==
  IF buf = << >> THEN (IF seg # << >> THEN <<Utf8Decode(seg)>> ELSE << >>)
  ELSE IF Head(buf) = NUL
    THEN <<(IF seg # << >> THEN Utf8Decode(seg) ELSE << >>)>>
         \o decodeFilePathsFrom(Tail(buf), << >>)
  ELSE decodeFilePathsFrom(Tail(buf), Append(seg, Head(buf)))

decodeFilePaths(buf) == IF Len(buf) = 0 THEN << >> ELSE decodeFilePathsFrom(buf, << >>)

(* XXHash128.hashFilesBulk({files, outputMode: "files"}): the per-file     *)
(* digests of the engine, in the order of the segments                     *)
hashFilesBulk(paths) ==
  LET segments == PathIndex(encodeFilePaths(paths))
  IN [j \in 1 .. Len(segments) |-> HashOneFile(segments[j])]

(* new XXHash128(seedLow, seedHigh), update(hashes), digest() *)
AggregateDigest(hashes, seed) == <<"agg", seed, hashes>>

(* fsStat(p) inside statAll: null when stat throws *)
StatOf(p) ==
  LET f == FileAt(Utf8Encode(p))
  IN IF p = << >> \/ HasNul(p) \/ ~f.exists THEN None
     ELSE Some([ino |-> f.ino, mtimeNs |-> f.mtimeNs, ctimeNs |-> f.ctimeNs, size |-> f.size])

statAll(paths) == [i \in 1 .. Len(paths) |-> StatOf(paths[i])]

(* buildEntryMap: a later index overwrites an earlier one; an index past   *)
(* the entries maps its path to undefined                                  *)
buildEntryMap(paths, entries) ==
  [p \in {paths[i] : i \in 1 .. Len(paths)} |->
     LET last == CHOOSE i \in 1 .. Len(paths) :
                   paths[i] = p /\ \A j \in (i + 1) .. Len(paths) : paths[j] # p
     IN IF last <= Len(entries) THEN Some(entries[last]) ELSE None]

MapGet(map, p) == IF map # None /\ p \in DOMAIN map[1] THEN map[1][p] ELSE None

(* type tags of the item stream *)
T_BUFFER == 0

T_STRING == 1

(* a data item: a string or a Buffer *)
StringItem(v) == [kind |-> "string", val |-> v]

BufferItem(v) == [kind |-> "buffer", val |-> v]

(* serializeItems: one tagged unit per item *)
serializeItems(items) ==
  [k \in 1 .. Len(items) |->
     [tag |-> IF items[k].kind = "string" THEN T_STRING ELSE T_BUFFER, val |-> items[k].val]]

(* parseItems(data, 0, count): null stands for the RangeError of a stream  *)
(* that ends early or holds an unknown tag                                 *)
parseItems(data, count) ==
  IF count > Len(data) \/ \E k \in 1 .. count : data[k].tag \notin {T_BUFFER, T_STRING}
    THEN None
    ELSE Some([k \in 1 .. count |->
                 IF data[k].tag = T_STRING THEN StringItem(data[k].val)
                                           ELSE BufferItem(data[k].val)])

(* the empty section *)
EMPTY == << >>

(* gzipAsync(raw): a blob that inflates to raw; its bytes are all there *)
Gzip(stream) == <<[inflated |-> stream, intact |-> TRUE]>>

(* gunzipAsync(buf, {maxOutputLength}): null stands for its rejection *)
Gunzip(buf, maxOutputLength) ==
  IF buf = EMPTY \/ ~buf[1].intact \/ Len(buf[1].inflated) > maxOutputLength THEN None
  ELSE Some(buf[1].inflated)

(* serializeCache: header, entries, paths, raw section, gzip section; the  *)
(* length of a gzip blob is taken as that of what it inflates to           *)
serializeCache(paths, entries, version, fingerprint, digest, rawBlob, gzipBlob, gzipUncompLen, rawItemCount, gzipItemCount) ==
  LET pathsBuf == serializePaths(paths)
  IN [headerLen |-> HEADER_SIZE,
      magic |-> MAGIC,
      version |-> version % 16777216,
      entryCount |-> Len(paths),
      digest |-> digest,
      fingerprint |-> fingerprint,
      pathsLen |-> Len(pathsBuf),
      rawDataLen |-> Len(rawBlob),
      gzipDataLen |-> IF gzipBlob = EMPTY THEN 0 ELSE Len(gzipBlob[1].inflated),
      gzipUncompLen |-> gzipUncompLen,
      rawItemCount |-> rawItemCount,
      gzipItemCount |-> gzipItemCount,
      entries |-> [i \in 1 .. Len(paths) |-> entries[i]],
      paths |-> pathsBuf,
      raw |-> rawBlob,
      gzip |-> gzipBlob]

(* the image write makes of the validated state and the items *)
WriteImage(c, rawItems, gzipItems) ==
  LET rawBlob == IF Len(rawItems) > 0 THEN serializeItems(rawItems) ELSE EMPTY
      gzipRaw == serializeItems(gzipItems)
  IN serializeCache(c.validPaths[1], c.validEntries[1], c.cfg.version, c.cfg.fingerprint,
                    c.validDigest[1], rawBlob,
                    IF Len(gzipItems) > 0 THEN Gzip(gzipRaw) ELSE EMPTY,
                    IF Len(gzipItems) > 0 THEN Len(gzipRaw) ELSE 0,
                    Len(rawItems), Len(gzipItems))

(* parseHeader: null on a short buffer or a bad magic *)
parseHeader(image) ==
  IF image.headerLen < HEADER_SIZE THEN None
  ELSE IF image.magic # MAGIC THEN None
  ELSE Some([version |-> image.version, entryCount |-> image.entryCount,
             digest |-> image.digest, fingerprint |-> image.fingerprint,
             pathsLen |-> image.pathsLen, rawDataLen |-> image.rawDataLen,
             gzipDataLen |-> image.gzipDataLen, gzipUncompLen |-> image.gzipUncompLen,
             rawItemCount |-> image.rawItemCount, gzipItemCount |-> image.gzipItemCount])

(* readFhHeader: null when fewer than HEADER_SIZE bytes are read *)
readFhHeader(image) ==
  IF Min(image.headerLen, HEADER_SIZE) < HEADER_SIZE THEN None ELSE parseHeader(image)

parseEntriesArray(section, count) == [i \in 1 .. count |-> section[i]]

----------------------------------------------------------------------------
(* FileHashCache (cache.ts) *)

(* new FileHashCache(manager, filePath, fingerprint) *)
FreshCache(cfg) ==
  [cfg |-> cfg, fh |-> FALSE, hdr |-> None, headerValid |-> FALSE,
   oldPaths |-> None, oldEntries |-> None, oldDigest |-> None,
   validPaths |-> None, validEntries |-> None, validDigest |-> None]

IdleValidate ==
  [pc |-> "idle", files |-> << >>, oldMap |-> None, stats |-> << >>,
   hashes |-> << >>, toHashIdx |-> << >>]

NoResult ==
  [op |-> "none", changed |-> FALSE, digest |-> None, rehashed |-> 0,
   error |-> << >>, validated |-> FALSE, basis |-> None, origin |-> None,
   files |-> << >>, stats |-> << >>, queued |-> << >>, oldMap |-> None,
   opened |-> "unopened", loaded |-> None, again |-> FALSE, items |-> << >>,
   ioOk |-> TRUE, held |-> None, thrown |-> "", gzipLevel |-> 1, gzipItems |-> 0,
   input |-> None]

NoHistory ==
  [valid |-> None, disk |-> None, old |-> None, basis |-> None, begun |-> None,
   validated |-> FALSE, opened |-> "unopened", begunOpened |-> "unopened", loaded |-> None]

DefaultConfig == [version |-> 1, seed |-> 0, fingerprint |-> "a"]

Construct(cfg) ==
  /\ vop.pc = "idle"
  /\ cache' = FreshCache(cfg)
  /\ io' = [io EXCEPT !.handles = 0, !.file = None]
  /\ res' = [NoResult EXCEPT !.op = "new"]
  /\ hist' = [hist EXCEPT !.valid = None, !.old = None, !.basis = None, !.validated = FALSE,
                          !.opened = "unopened", !.begunOpened = "unopened", !.loaded = None]
  /\ UNCHANGED <<fs, engineVars, init, codec, hasher, manager, disk, vop>>

(* what is wrong with the cache file for a cache of this configuration:    *)
(* the file as an observer reads it, not as open does                      *)
Damage(file, cfg) ==
  IF file = None THEN "missing"
  ELSE IF file[1].headerLen < HEADER_SIZE THEN "short"
  ELSE IF file[1].magic # MAGIC THEN "magic"
  ELSE IF file[1].version # cfg.version THEN "version"
  ELSE IF file[1].fingerprint # cfg.fingerprint THEN "fingerprint"
  ELSE "ok"

(* close: the handle in _fh, if any, is closed *)
(* an open that forgets the handle it holds *)
HandlesKept(c, handles) == handles

(* a close that closes whether or not it holds a handle *)
HandlesClosedBlindly(c, handles) == handles - 1

HandlesAfterClose(c, handles) == IF c.fh THEN handles - 1 ELSE handles

(* _loadOldEntries, on a valid header *)
LoadedCache(c, image, hdr) ==
  [c EXCEPT
     !.oldDigest = Some(hdr.digest),
     !.oldEntries = Some(IF hdr.entryCount = 0 THEN << >>
                         ELSE parseEntriesArray(image.entries, hdr.entryCount)),
     !.oldPaths = Some(IF hdr.entryCount = 0 THEN << >>
                       ELSE IF hdr.pathsLen > 0
                         THEN parsePaths(SubSeq(image.paths, 1, hdr.pathsLen))
                         ELSE [i \in 1 .. hdr.entryCount |-> << >>])]

(* a comparison that lets any version through *)
HeaderMatchesAnyVersion(c, hdr) ==
  /\ hdr # None
  /\ hdr[1].fingerprint = c.cfg.fingerprint

HeaderMatches(c, hdr) ==
  /\ hdr # None
  /\ hdr[1].version = c.cfg.version
  /\ hdr[1].fingerprint = c.cfg.fingerprint

(* open: close, then open the file, read the header, load the old entries *)
Open ==
  /\ LET closed == FreshCache(cache.cfg)
         hdr == IF disk = None THEN None ELSE readFhHeader(disk[1])
         opened == [closed EXCEPT !.fh = TRUE, !.hdr = hdr]
     IN /\ cache' = IF disk = None THEN closed
                    ELSE IF HeaderMatches(closed, hdr)
                      THEN LoadedCache([opened EXCEPT !.headerValid = TRUE], disk[1], hdr[1])
                      ELSE opened
        /\ hist' = [hist EXCEPT
                      !.valid = None, !.basis = None, !.validated = FALSE,
                      !.old = IF disk # None /\ HeaderMatches(closed, hdr) THEN hist.disk ELSE None,
                      !.opened = Damage(disk, cache.cfg),
                      !.begunOpened = "interleaved",
                      !.loaded = IF Damage(disk, cache.cfg) = "ok" THEN Some(disk[1].digest) ELSE None]
  /\ io' = [io EXCEPT !.handles = HandlesAfterClose(cache, @) + (IF disk = None THEN 0 ELSE 1),
                      !.file = disk]
  /\ res' = [NoResult EXCEPT !.op = "open", !.again = cache.fh]
  /\ UNCHANGED <<fs, engineVars, init, codec, hasher, manager, disk, vop>>

(* The awaits of open, in order: open(filePath), the read of the header in *)
(* readFhHeader, and the reads of the entries and of the paths section in  *)
(* _loadOldEntries.  When one of them rejects, open's catch swallows the   *)
(* error and the fields stay as they were assigned up to that await.       *)
OpenSteps == <<"open", "header", "entries", "paths">>

OpenFailed(c, image, hdr, step) ==
  LET closed == FreshCache(c.cfg)
      opened == [closed EXCEPT !.fh = TRUE]
      valid == [opened EXCEPT !.hdr = hdr, !.headerValid = TRUE,
                              !.oldDigest = Some(hdr[1].digest)]
  IN IF step = "open" THEN closed
     ELSE IF step = "header" THEN opened
     ELSE IF step = "entries" THEN valid
     ELSE [valid EXCEPT
             !.oldEntries = Some(parseEntriesArray(image.entries, hdr[1].entryCount))]

(* the await of this step is reached by open on this file *)
OpenReaches(c, file, step) ==
  LET hdr == IF file = None THEN None ELSE readFhHeader(file[1]) IN
  \/ step = "open"
  \/ step = "header" /\ file # None
  \/ /\ step = "entries"
     /\ file # None /\ HeaderMatches(c, hdr) /\ hdr[1].entryCount > 0
  \/ /\ step = "paths"
     /\ file # None /\ HeaderMatches(c, hdr) /\ hdr[1].entryCount > 0
     /\ hdr[1].pathsLen > 0

(* open, with an I/O error at one of its awaits *)
OpenRejects(step) ==
  /\ OpenReaches(FreshCache(cache.cfg), disk, step)
  /\ LET hdr == IF disk = None THEN None ELSE readFhHeader(disk[1])
         image == IF disk = None THEN None ELSE disk[1]
     IN cache' = OpenFailed(cache, image, hdr, step)
  /\ hist' = [hist EXCEPT
                !.valid = None, !.basis = None, !.validated = FALSE, !.old = None,
                !.opened = "io error: " \o step,
                !.begunOpened = "interleaved",
                !.loaded = None]
  /\ io' = [io EXCEPT !.handles = HandlesAfterClose(cache, @) + (IF step = "open" THEN 0 ELSE 1),
                      !.file = IF step = "open" THEN None ELSE disk]
  /\ res' = [NoResult EXCEPT !.op = "open", !.again = cache.fh]
  /\ UNCHANGED <<fs, engineVars, init, codec, hasher, manager, disk, vop>>

Close ==
  /\ cache' = FreshCache(cache.cfg)
  /\ io' = [io EXCEPT !.handles = HandlesAfterClose(cache, @), !.file = None]
  /\ res' = [NoResult EXCEPT !.op = "close", !.again = (res.op = "close")]
  /\ hist' = [hist EXCEPT !.valid = None, !.old = None, !.basis = None, !.validated = FALSE,
                          !.opened = "unopened", !.begunOpened = "interleaved", !.loaded = None]
  /\ UNCHANGED <<fs, engineVars, init, codec, hasher, manager, disk, vop>>

(* _resolveFiles: files is None when the argument is omitted *)
ResolveFiles(c, files) ==
  IF files # None THEN files[1]
  ELSE IF c.oldPaths # None THEN c.oldPaths[1]
  ELSE << >>

(* a result that looks only at whether an old digest exists *)
ChangedIfNoOld(oldDigest, digest) == oldDigest = None

(* validate's changed: !this._oldDigest || !this._oldDigest.equals(digest) *)
Changed(oldDigest, digest) == oldDigest = None \/ oldDigest[1] # digest

(* validate, steps 4 and 5: the digest, the entries, the validated state   *)
(* and the result, which reads _oldDigest as it is now                     *)
ValidateFinish(files, stats, hashes, queued, oldMap, basis, begun, opened) ==
  LET digest == AggregateDigest(hashes, cache.cfg.seed)
      entries == [i \in 1 .. Len(files) |->
                    IF stats[i] = None
                      THEN [ino |-> 0, mtimeNs |-> 0, ctimeNs |-> 0, size |-> 0, hash |-> hashes[i]]
                      ELSE [ino |-> stats[i][1].ino, mtimeNs |-> stats[i][1].mtimeNs,
                            ctimeNs |-> stats[i][1].ctimeNs, size |-> stats[i][1].size,
                            hash |-> hashes[i]]]
      origin == IF begun = Some(fs)
                  THEN Some([files |-> files, fs |-> fs, cfg |-> cache.cfg])
                  ELSE None
  IN /\ cache' = [cache EXCEPT !.validPaths = Some(files),
                               !.validEntries = Some(entries),
                               !.validDigest = Some(digest)]
     /\ res' = [NoResult EXCEPT
                  !.op = "validate",
                  !.changed = Changed(cache.oldDigest, digest),
                  !.digest = Some(digest),
                  !.rehashed = Len(queued),
                  !.basis = basis,
                  !.origin = origin,
                  !.files = files,
                  !.stats = stats,
                  !.queued = queued,
                  !.oldMap = oldMap,
                  !.opened = opened,
                  !.loaded = hist.loaded]
     /\ hist' = [hist EXCEPT !.valid = origin, !.basis = None, !.begun = None, !.validated = TRUE]
     /\ vop' = IdleValidate

(* validate, up to the first await: the paths and the old-entry lookup;    *)
(* with no path it completes at once                                       *)
ValidateBegin(files) ==
  /\ vop.pc = "idle"
  /\ LET filePaths == ResolveFiles(cache, files)
         oldMap == IF cache.oldPaths # None /\ cache.oldEntries # None
                     THEN Some(buildEntryMap(cache.oldPaths[1], cache.oldEntries[1]))
                     ELSE None
     IN IF Len(filePaths) = 0
          THEN ValidateFinish(<< >>, << >>, << >>, << >>, oldMap, hist.old, Some(fs), hist.opened)
          ELSE /\ vop' = [IdleValidate EXCEPT !.pc = "stat", !.files = filePaths, !.oldMap = oldMap]
               /\ hist' = [hist EXCEPT !.basis = hist.old, !.begun = Some(fs),
                                       !.begunOpened = hist.opened]
               /\ UNCHANGED <<cache, res>>
  /\ UNCHANGED <<fs, engineVars, libVars, disk>>

(* step 2's test: the cached entry has the file's identity *)
(* a comparison that leaves the change time out *)
SameIdentityNoCtime(cached, s) ==
  /\ cached # None
  /\ cached[1].ino = s.ino
  /\ cached[1].mtimeNs = s.mtimeNs
  /\ cached[1].size = s.size

SameIdentity(cached, s) ==
  /\ cached # None
  /\ cached[1].ino = s.ino
  /\ cached[1].mtimeNs = s.mtimeNs
  /\ cached[1].ctimeNs = s.ctimeNs
  /\ cached[1].size = s.size

MustHash(oldMap, path, s) == s # None /\ ~SameIdentity(MapGet(oldMap, path), s[1])

(* validate, after statAll: reuse or queue; with nothing queued it goes on *)
(* to complete without another await                                       *)
ValidateStat ==
  /\ vop.pc = "stat"
  /\ LET files == vop.files
         n == Len(files)
         stats == statAll(files)
         hashes == [i \in 1 .. n |->
                      IF stats[i] # None /\ ~MustHash(vop.oldMap, files[i], stats[i])
                        THEN MapGet(vop.oldMap, files[i])[1].hash
                        ELSE ZeroHash]
         toHashIdx == SelectSeq([i \in 1 .. n |-> i],
                                LAMBDA i : MustHash(vop.oldMap, files[i], stats[i]))
     IN IF Len(toHashIdx) = 0
          THEN ValidateFinish(files, stats, hashes, << >>, vop.oldMap, hist.basis, hist.begun,
                              hist.begunOpened)
          ELSE /\ vop' = [vop EXCEPT !.pc = "hash", !.stats = stats, !.hashes = hashes,
                                     !.toHashIdx = toHashIdx]
               /\ UNCHANGED <<cache, res, hist>>
  /\ UNCHANGED <<fs, engineVars, libVars, disk>>

(* validate, after hashFilesBulk *)
ValidateHash ==
  /\ vop.pc = "hash"
  /\ LET toHash == [j \in 1 .. Len(vop.toHashIdx) |-> vop.files[vop.toHashIdx[j]]]
         bulk == hashFilesBulk(toHash)
         hashes == [i \in 1 .. Len(vop.files) |->
                      IF \E j \in 1 .. Len(vop.toHashIdx) : vop.toHashIdx[j] = i
                        THEN bulk[CHOOSE j \in 1 .. Len(vop.toHashIdx) : vop.toHashIdx[j] = i]
                        ELSE vop.hashes[i]]
     IN ValidateFinish(vop.files, vop.stats, hashes, vop.toHashIdx, vop.oldMap, hist.basis,
                       hist.begun, hist.begunOpened)
  /\ UNCHANGED <<fs, engineVars, libVars, disk>>

(* hashFilesBulk rejects (out of memory): validate rejects with it *)
ValidateHashReject ==
  /\ vop.pc = "hash"
  /\ vop' = IdleValidate
  /\ res' = [NoResult EXCEPT !.op = "validate", !.error = <<"hashFilesBulk:", "out", "of", "memory">>]
  /\ hist' = [hist EXCEPT !.basis = None, !.begun = None]
  /\ UNCHANGED <<fs, engineVars, libVars, disk, cache>>

(* write's first statement *)
HasValidState(c) == c.validPaths # None /\ c.validEntries # None /\ c.validDigest # None

(* an error's message, word by word *)
OtherMessage == <<"FileHashCache:", "cache", "is", "not", "open">>

WriteBeforeValidateMessage == <<"FileHashCache:", "call", "validate()", "before", "write()">>

GzipLevelMessage == <<"FileHashCache:", "gzipLevel", "must", "be", "1-9">>

(* a level of 0 let through *)
GzipLevelFromZero(gzipItems, gzipLevel) ==
  Len(gzipItems) > 0 /\ (gzipLevel < 0 \/ gzipLevel > 9)

(* write: gzipItems.length > 0 && (gzipLevel < 1 || gzipLevel > 9) *)
GzipLevelRejected(gzipItems, gzipLevel) ==
  Len(gzipItems) > 0 /\ (gzipLevel < 1 \/ gzipLevel > 9)

(* a write that uses up the validated state *)
WrittenAndReset(c) ==
  [c EXCEPT !.validPaths = None, !.validEntries = None, !.validDigest = None]

(* the cache object when write has returned: write reads _validPaths,      *)
(* _validEntries and _validDigest and assigns no field                     *)
Written(c) == c

(* readFiles() *)
readFiles(c) ==
  IF c.validPaths # None THEN c.validPaths[1]
  ELSE IF c.oldPaths # None THEN c.oldPaths[1]
  ELSE << >>

(* write(options): the file is replaced by the rename *)
WriteOptions(rawItems, gzipItems, gzipLevel) ==
  /\ IF ~HasValidState(cache)
       THEN /\ res' = [NoResult EXCEPT !.op = "write", !.validated = hist.validated,
                                       !.error = WriteBeforeValidateMessage,
                                       !.thrown = "Error",
                                       !.gzipLevel = gzipLevel, !.gzipItems = Len(gzipItems)]
            /\ UNCHANGED <<disk, hist, cache>>
     ELSE IF GzipLevelRejected(gzipItems, gzipLevel)
       THEN /\ res' = [NoResult EXCEPT !.op = "write", !.validated = hist.validated,
                                       !.error = GzipLevelMessage,
                                       !.thrown = "RangeError",
                                       !.gzipLevel = gzipLevel, !.gzipItems = Len(gzipItems)]
            /\ UNCHANGED <<disk, hist, cache>>
       ELSE /\ disk' = Some(WriteImage(cache, rawItems, gzipItems))
            /\ res' = [NoResult EXCEPT !.op = "write", !.validated = hist.validated,
                                       !.gzipLevel = gzipLevel, !.gzipItems = Len(gzipItems)]
            /\ hist' = [hist EXCEPT !.disk = hist.valid]
            /\ cache' = Written(cache)
  /\ UNCHANGED <<fs, engineVars, libVars, vop>>

(* write({raw, gzip}): gzipLevel is options?.gzipLevel ?? 1 *)
WriteWith(rawItems, gzipItems) == WriteOptions(rawItems, gzipItems, 1)

(* write() *)
Write == WriteWith(<< >>, << >>)

(* fh.read(buf, 0, len, off) into bufferAllocUnsafe(len): the units the    *)
(* file has at the section, and past the end of the file whatever the      *)
(* buffer held before (bytesRead is not looked at)                         *)
ReadUnsafe(section, len, uninit) ==
  LET got == Min(len, Len(section))
  IN SubSeq(section, 1, got) \o SubSeq(uninit, 1, len - got)

(* what an uninitialized unit may hold: zero bytes, which are the header   *)
(* of an empty Buffer item, or bytes of no known tag                       *)
UninitUnits == {[tag |-> T_BUFFER, val |-> ""], [tag |-> 255, val |-> ""]}

MaxItems == 2

RECURSIVE UninitOf(_)
UninitOf(n) ==
  IF n = 0 THEN {<< >>} ELSE {Append(b, u) : b \in UninitOf(n - 1), u \in UninitUnits}

(* readRawData / readGzipData: `!fh || !hdr` *)
HasDataHeader(c) == c.fh /\ c.hdr # None

(* readRawData; ioOk is whether fh.read resolves *)
ReadRawData(ioOk, uninit) ==
  /\ res' = [NoResult EXCEPT
               !.op = "readRawData", !.ioOk = ioOk, !.held = io.file,
               !.items =
                 IF ~HasDataHeader(cache) THEN << >>
                 ELSE IF cache.hdr[1].rawItemCount = 0 \/ cache.hdr[1].rawDataLen = 0 THEN << >>
                 ELSE IF ~ioOk \/ io.file = None THEN << >>
                 ELSE LET buf == ReadUnsafe(io.file[1].raw, cache.hdr[1].rawDataLen, uninit)
                          items == parseItems(buf, cache.hdr[1].rawItemCount)
                      IN IF items = None THEN << >> ELSE items[1]]
  /\ UNCHANGED <<fs, engineVars, libVars, disk, cache, vop, hist>>

(* readGzipData; stale is whether the buffer happened to hold the bytes    *)
(* that a cut blob lacks                                                   *)
ReadGzipData(ioOk, stale) ==
  /\ res' = [NoResult EXCEPT
               !.op = "readGzipData", !.ioOk = ioOk, !.held = io.file,
               !.items =
                 IF ~HasDataHeader(cache) THEN << >>
                 ELSE IF cache.hdr[1].gzipItemCount = 0 \/ cache.hdr[1].gzipDataLen = 0 THEN << >>
                 ELSE IF ~ioOk \/ io.file = None THEN << >>
                 ELSE LET section == io.file[1].gzip
                          buf == IF section # EMPTY /\ ~section[1].intact /\ stale
                                   THEN <<[section[1] EXCEPT !.intact = TRUE]>>
                                   ELSE section
                          payload == Gunzip(buf, cache.hdr[1].gzipUncompLen)
                          items == IF payload = None THEN None
                                   ELSE parseItems(payload[1], cache.hdr[1].gzipItemCount)
                      IN IF items = None THEN << >> ELSE items[1]]
  /\ UNCHANGED <<fs, engineVars, libVars, disk, cache, vop, hist>>

(* another process cuts the file the cache holds open, inside its raw      *)
(* section or inside its gzip section                                      *)
TruncateHeld(kind) ==
  /\ io.file # None
  /\ LET image == io.file[1]
         cutGzip == IF image.gzip = EMPTY THEN EMPTY
                    ELSE <<[image.gzip[1] EXCEPT !.intact = FALSE]>>
         cut == IF kind = "raw"
                  THEN [image EXCEPT !.raw = SubSeq(@, 1, Len(@) - 1), !.gzip = cutGzip]
                  ELSE [image EXCEPT !.gzip = cutGzip]
     IN /\ IF kind = "raw" THEN Len(image.raw) > 0
                           ELSE image.gzip # EMPTY /\ image.gzip[1].intact
        /\ io' = [io EXCEPT !.file = Some(cut)]
        /\ disk' = IF disk = io.file THEN Some(cut) ELSE disk
  /\ hist' = [hist EXCEPT !.disk = None]
  /\ UNCHANGED <<fs, engineVars, init, codec, hasher, manager, cache, vop, res>>

(* the first CutAt bytes of a cache file *)
CutImage(image) ==
  [image EXCEPT !.headerLen = CutAt, !.entryCount = 0, !.pathsLen = 0,
                !.entries = << >>, !.paths = << >>, !.raw = EMPTY, !.gzip = EMPTY]

(* this.filePath, and the temporary name write derives from it *)
CachePath == <<"filePath">>

(* a temporary name that is the destination itself *)
TmpPathInPlace(outPath) == outPath

TmpPath(outPath) == outPath \o <<".tmp-", "pid">>

FileAtPath(path) == IF path = CachePath THEN disk ELSE io.tmp

(* write, up to mkdir: the guard and the serialized image *)
WriteBegin ==
  /\ io.pc = "idle"
  /\ IF ~HasValidState(cache)
       THEN /\ res' = [NoResult EXCEPT !.op = "write", !.validated = hist.validated,
                                       !.error = WriteBeforeValidateMessage]
            /\ UNCHANGED io
       ELSE /\ io' = [io EXCEPT
                       !.pc = "mkdir",
                       !.buf = Some(WriteImage(cache, << >>, << >>)),
                       !.prev = disk,
                       !.origin = hist.valid]
            /\ UNCHANGED res
  /\ UNCHANGED <<fs, engineVars, init, codec, hasher, manager, disk, cache, vop, hist>>

(* write: mkdir has returned *)
WriteMkdir ==
  /\ io.pc = "mkdir"
  /\ io' = [io EXCEPT !.pc = "writeFile"]
  /\ UNCHANGED <<fs, engineVars, init, codec, hasher, manager, cacheVars>>

(* fsWriteFile(tmp, buf): the file is created or truncated and a first     *)
(* part of the image is in it                                              *)
WriteFileSome ==
  /\ io.pc = "writeFile"
  /\ LET target == TmpPath(CachePath)
         part == Some(CutImage(io.buf[1]))
     IN /\ disk' = IF target = CachePath THEN part ELSE disk
        /\ io' = [io EXCEPT !.pc = "writing",
                            !.tmp = IF target = CachePath THEN @ ELSE part]
  /\ UNCHANGED <<fs, engineVars, init, codec, hasher, manager, cache, vop, res, hist>>

(* fsWriteFile(tmp, buf): the rest of the image is in the file *)
WriteFileAll ==
  /\ io.pc = "writing"
  /\ LET target == TmpPath(CachePath)
     IN /\ disk' = IF target = CachePath THEN io.buf ELSE disk
        /\ io' = [io EXCEPT !.pc = "rename",
                            !.tmp = IF target = CachePath THEN @ ELSE io.buf]
  /\ UNCHANGED <<fs, engineVars, init, codec, hasher, manager, cache, vop, res, hist>>

(* rename(tmp, outPath) *)
WriteRename ==
  /\ io.pc = "rename"
  /\ LET source == TmpPath(CachePath)
     IN /\ disk' = FileAtPath(source)
        /\ io' = [io EXCEPT !.pc = "idle",
                            !.tmp = IF source = CachePath THEN @ ELSE None]
  /\ res' = [NoResult EXCEPT !.op = "write", !.validated = hist.validated]
  /\ hist' = [hist EXCEPT !.disk = io.origin]
  /\ cache' = Written(cache)
  /\ UNCHANGED <<fs, engineVars, init, codec, hasher, manager, vop>>

(* mkdir, fsWriteFile or rename rejects: write rejects with it, and the    *)
(* temporary file stays as it is                                           *)
WriteReject ==
  /\ io.pc \in {"mkdir", "writeFile", "writing", "rename"}
  /\ io' = [io EXCEPT !.pc = "idle"]
  /\ res' = [NoResult EXCEPT !.op = "write", !.error = <<"EIO">>]
  /\ UNCHANGED <<fs, engineVars, init, codec, hasher, manager, disk, cache, vop, hist>>

(* the process dies inside write; what is on disk stays, and the next      *)
(* process starts with a new cache object                                  *)
Crash ==
  /\ io.pc # "idle"
  /\ io' = [io EXCEPT !.pc = "idle", !.handles = 0, !.file = None]
  /\ cache' = FreshCache(cache.cfg)
  /\ vop' = IdleValidate
  /\ res' = [NoResult EXCEPT !.op = "crash"]
  /\ hist' = [hist EXCEPT !.valid = None, !.old = None, !.basis = None, !.begun = None,
                          !.validated = FALSE, !.opened = "unopened",
                          !.begunOpened = "unopened", !.loaded = None]
  /\ UNCHANGED <<fs, engineVars, init, codec, hasher, manager, disk>>

(* another process damages the cache file: a wrong magic, or a file cut    *)
(* inside its header                                                       *)
CorruptFile(kind) ==
  /\ disk # None
  /\ Damage(disk, cache.cfg) \notin {"short", "magic"}
  /\ disk' = IF kind = "short"
               THEN Some(CutImage(disk[1]))
               ELSE Some([disk[1] EXCEPT !.magic = 0])
  /\ hist' = [hist EXCEPT !.disk = None]
  /\ UNCHANGED <<fs, engineVars, libVars, cache, vop, res>>

(* another process removes the cache file *)
DeleteFile ==
  /\ disk # None
  /\ disk' = None
  /\ hist' = [hist EXCEPT !.disk = None]
  /\ UNCHANGED <<fs, engineVars, libVars, cache, vop, res>>

(* another process rewrites a file: new content, new times *)
ModifyFile(path) ==
  /\ path \in DOMAIN fs
  /\ fs[path].mtimeNs <= MaxEdits
  /\ fs' = [fs EXCEPT ![path] = [@ EXCEPT !.data = @ + 100, !.size = @ + 1,
                                          !.mtimeNs = @ + 1, !.ctimeNs = @ + 1]]
  /\ UNCHANGED <<engineVars, cacheVars, libVars>>

----------------------------------------------------------------------------
(* The cache's world *)

CacheFiles ==
  (PSmall :> RegularFile(1, 12)) @@
  (PSmall2 :> RegularFile(8, 14)) @@
  (PNoOpen :> [RegularFile(6, 9) EXCEPT !.canOpen = FALSE]) @@
  (PReplacement :> RegularFile(10, 5))

CacheLists ==
  {<< >>, <<PSmall, PSmall2>>, <<PSmall2, PNoOpen, PMissing, PSmall2>>,
   <<PWithNul, PSmall>>, <<PSurrogate, EmptyPath>>}

CacheConfigs == {DefaultConfig, [DefaultConfig EXCEPT !.version = 2]}

IdleIO == [handles |-> 0, tmp |-> None, pc |-> "idle", buf |-> None, prev |-> None,
           origin |-> None, file |-> None]

(* module state of xxhash128.ts and xxhash128-wasm.ts; a promise is its    *)
(* number (which run of the body made it) and its state                    *)
IdleInit ==
  [nativeAvailable |-> TRUE, nativeCtor |-> FALSE, nativeLoadFailed |-> FALSE,
   initPromise |-> None, wasmModule |-> FALSE, wasmInitPromise |-> None,
   libraryStatus |-> "none", bodyRuns |-> 0, wasmRuns |-> 0,
   calls |-> 0, wasmCalls |-> 0, given |-> << >>]

(* a path buffer handed to the consumers, and what each made of it *)
(* and a path list, and whether the buffer is its encoding                 *)
IdleCodec ==
  [buf |-> << >>, native |-> None, portable |-> None, paths |-> None, encoded |-> FALSE]

(* no hasher constructed, no bulk call made *)
IdleHasher ==
  [state |-> None, backend |-> "none", updates |-> << >>, call |-> None,
   last |-> None, static |-> None]

LibIdle ==
  /\ io = IdleIO
  /\ init = IdleInit
  /\ codec = IdleCodec
  /\ hasher = IdleHasher
  /\ manager = None

CacheIdle ==
  /\ disk = None
  /\ cache = FreshCache(DefaultConfig)
  /\ vop = IdleValidate
  /\ res = NoResult
  /\ hist = NoHistory

EngineIdle ==
  /\ hwRaw = 3
  /\ gActive = 0
  /\ inv = [i \in Invocations |-> IdleInvocation]

InitCache ==
  /\ fs = CacheFiles
  /\ EngineIdle
  /\ CacheIdle
  /\ LibIdle

NextCache ==
  \/ \E cfg \in CacheConfigs : Construct(cfg)
  \/ Open
  \/ Close
  \/ \E files \in {None} \cup {Some(l) : l \in CacheLists} : ValidateBegin(files)
  \/ ValidateStat
  \/ ValidateHash
  \/ ValidateHashReject
  \/ Write
  \/ \E path \in {PSmall} : ModifyFile(path)

SpecCache == InitCache /\ [][NextCache]_vars

(* another process changes the mode of a file it has not touched since    *)
(* the last rewrite: a new change time, nothing else                       *)
TouchFile(path) ==
  /\ path \in DOMAIN fs
  /\ fs[path].ctimeNs = fs[path].mtimeNs
  /\ fs' = [fs EXCEPT ![path] = [@ EXCEPT !.ctimeNs = @ + 1]]
  /\ UNCHANGED <<engineVars, cacheVars, libVars>>

(* One manager, files that change between validations *)
ReuseLists == {<< >>, <<PSmall, PSmall2>>, <<PSmall2, PMissing, PSmall>>}

NextReuse ==
  \/ Open
  \/ \E files \in {None} \cup {Some(l) : l \in ReuseLists} : ValidateBegin(files)
  \/ ValidateStat
  \/ ValidateHash
  \/ ValidateHashReject
  \/ Write
  \/ \E path \in {PSmall} : ModifyFile(path)
  \/ \E path \in {PSmall2} : TouchFile(path)

SpecReuse == InitCache /\ [][NextReuse]_vars

----------------------------------------------------------------------------
(* A path buffer and its two consumers *)

MaxBufLen == 3

BufBytes == {NUL, 1, 2}

RECURSIVE BuffersOf(_)
BuffersOf(n) ==
  IF n = 0 THEN {<< >>}
  ELSE LET shorter == BuffersOf(n - 1)
       IN shorter \cup {Append(b, c) : b \in {x \in shorter : Len(x) = n - 1}, c \in BufBytes}

(* the native side: HashFilesWorker builds its PathIndex over the buffer *)
IndexPaths ==
  /\ codec.native = None
  /\ codec' = [codec EXCEPT !.native = Some(PathIndex(codec.buf))]
  /\ UNCHANGED <<fs, engineVars, cacheVars, io, init, hasher, manager>>

(* the portable side *)
DecodePaths ==
  /\ codec.portable = None
  /\ codec' = [codec EXCEPT !.portable = Some(decodeFilePaths(codec.buf))]
  /\ UNCHANGED <<fs, engineVars, cacheVars, io, init, hasher, manager>>

InitCodec ==
  /\ fs = CacheFiles
  /\ EngineIdle
  /\ CacheIdle
  /\ io = IdleIO
  /\ init = IdleInit
  /\ hasher = IdleHasher
  /\ manager = None
  /\ \E b \in BuffersOf(MaxBufLen) : codec = [IdleCodec EXCEPT !.buf = b]

NextCodec ==
  \/ IndexPaths
  \/ DecodePaths

SpecCodec == InitCodec /\ [][NextCodec]_vars

----------------------------------------------------------------------------
(* XXHash128.init and XXHash128Wasm.init *)

MaxInitCalls == 3

Promise(id, state) == Some([id |-> id, state |-> state])

(* a guard that never reuses the promise *)
NeedsBodyAlways(promise) == TRUE

(* p ??= body(): the body runs only when no promise is stored *)
NeedsBody(promise) == promise = None

(* XXHash128Wasm.init(), up to the first await of _doWasmInit *)
WasmInit(i) ==
  IF i.wasmModule THEN i
  ELSE IF NeedsBody(i.wasmInitPromise)
    THEN [i EXCEPT !.wasmRuns = @ + 1, !.wasmInitPromise = Promise(i.wasmRuns + 1, "pending")]
    ELSE i

(* XXHash128.init(): resolved at once with the native binding loaded;      *)
(* else the stored promise, made by _doInit when there is none. _doInit    *)
(* loads the binding, or goes on to await XXHash128Wasm.init(). The caller *)
(* is given promise 0 (Promise.resolve()) or the stored one.               *)
InitCall ==
  /\ init.calls < MaxInitCalls
  /\ LET called == [init EXCEPT !.calls = @ + 1]
         id == init.bodyRuns + 1
     IN init' =
          IF init.nativeCtor
            THEN [called EXCEPT !.given = Append(@, 0)]
          ELSE IF NeedsBody(init.initPromise)
            THEN IF init.nativeAvailable
                   THEN [called EXCEPT !.bodyRuns = id, !.nativeCtor = TRUE,
                                       !.libraryStatus = "native",
                                       !.initPromise = Promise(id, "fulfilled"),
                                       !.given = Append(@, id)]
                   ELSE [WasmInit(called) EXCEPT
                                       !.bodyRuns = id, !.nativeLoadFailed = TRUE,
                                       !.initPromise = Promise(id, "pending"),
                                       !.given = Append(@, id)]
          ELSE [called EXCEPT !.given = Append(@, init.initPromise[1].id)]
  /\ UNCHANGED <<fs, engineVars, cacheVars, io, codec, hasher, manager>>

(* a direct call of XXHash128Wasm.init() *)
WasmInitCall ==
  /\ init.wasmCalls < MaxInitCalls
  /\ init' = [WasmInit(init) EXCEPT !.wasmCalls = @ + 1]
  /\ UNCHANGED <<fs, engineVars, cacheVars, io, codec, hasher, manager>>

(* _doWasmInit after its awaits: the module is compiled *)
WasmCompiled ==
  /\ init.wasmInitPromise # None
  /\ init.wasmInitPromise[1].state = "pending"
  /\ init' = [init EXCEPT !.wasmModule = TRUE,
                          !.wasmInitPromise = Promise(init.wasmInitPromise[1].id, "fulfilled")]
  /\ UNCHANGED <<fs, engineVars, cacheVars, io, codec, hasher, manager>>

(* readFile or WebAssembly.compile rejects: the promise stays, rejected *)
WasmCompileFails ==
  /\ init.wasmInitPromise # None
  /\ init.wasmInitPromise[1].state = "pending"
  /\ init' = [init EXCEPT
                 !.wasmInitPromise = Promise(init.wasmInitPromise[1].id, "rejected")]
  /\ UNCHANGED <<fs, engineVars, cacheVars, io, codec, hasher, manager>>

(* _doInit after `await XXHash128Wasm.init()` *)
DoInitResume ==
  /\ init.initPromise # None
  /\ init.initPromise[1].state = "pending"
  /\ \/ /\ init.wasmModule
        /\ init' = [init EXCEPT !.libraryStatus = "wasm",
                                !.initPromise = Promise(init.initPromise[1].id, "fulfilled")]
     \/ /\ ~init.wasmModule
        /\ init.wasmInitPromise # None
        /\ init.wasmInitPromise[1].state = "rejected"
        /\ init' = [init EXCEPT
                       !.initPromise = Promise(init.initPromise[1].id, "rejected")]
  /\ UNCHANGED <<fs, engineVars, cacheVars, io, codec, hasher, manager>>

(* a process with or without a native binding for its platform *)
InitInit ==
  /\ fs = CacheFiles
  /\ EngineIdle
  /\ CacheIdle
  /\ io = IdleIO
  /\ codec = IdleCodec
  /\ hasher = IdleHasher
  /\ manager = None
  /\ \E native \in BOOLEAN : init = [IdleInit EXCEPT !.nativeAvailable = native]

NextInit ==
  \/ InitCall
  \/ WasmInitCall
  \/ WasmCompiled
  \/ WasmCompileFails
  \/ DoInitResume

SpecInit == InitInit /\ [][NextInit]_vars

----------------------------------------------------------------------------
(* A cache file with data items, its readers, and a file cut short *)
DataConfigs == {DefaultConfig, [DefaultConfig EXCEPT !.version = 2]}

RawItemLists == {<< >>, <<StringItem("one"), BufferItem("two")>>}

GzipItemLists == {<< >>, <<StringItem("code")>>}

NextData ==
  \/ \E cfg \in DataConfigs : Construct(cfg)
  \/ Open
  \/ \E files \in {Some(<<PSmall>>)} : ValidateBegin(files)
  \/ ValidateStat
  \/ ValidateHash
  \/ \E raw \in RawItemLists, gzip \in GzipItemLists : WriteWith(raw, gzip)
  \/ \E ioOk \in BOOLEAN, uninit \in UninitOf(MaxItems) : ReadRawData(ioOk, uninit)
  \/ \E ioOk \in BOOLEAN, stale \in BOOLEAN : ReadGzipData(ioOk, stale)
  \/ \E kind \in {"raw", "gzip"} : TruncateHeld(kind)

SpecData == InitCache /\ [][NextData]_vars

(* One writer, its write taken step by step *)
WriteLists == {<<PSmall>>, <<PSmall, PSmall2>>}

NextWrite ==
  \/ Open
  \/ \E files \in {Some(l) : l \in WriteLists} : ValidateBegin(files)
  \/ ValidateStat
  \/ ValidateHash
  \/ ValidateHashReject
  \/ WriteBegin
  \/ WriteMkdir
  \/ WriteFileSome
  \/ WriteFileAll
  \/ WriteRename
  \/ WriteReject
  \/ Crash

SpecWrite == InitCache /\ [][NextWrite]_vars

(* A cache file that is removed, damaged, or written by another manager    *)
OpenLists == {<< >>, <<PSmall, PMissing>>, <<PSmall2, PNoOpen>>}

OpenConfigs ==
  {DefaultConfig, [DefaultConfig EXCEPT !.version = 2],
   [DefaultConfig EXCEPT !.fingerprint = "b"]}

NextOpen ==
  \/ \E cfg \in OpenConfigs : Construct(cfg)
  \/ Open
  \/ Close
  \/ \E files \in {None} \cup {Some(l) : l \in OpenLists} : ValidateBegin(files)
  \/ ValidateStat
  \/ ValidateHash
  \/ ValidateHashReject
  \/ Write
  \/ \E kind \in {"short", "magic"} : CorruptFile(kind)
  \/ DeleteFile

SpecOpen == InitCache /\ [][NextOpen]_vars

----------------------------------------------------------------------------
(* Inputs *)

ListAllKinds == <<PSmall, EmptyPath, PNoOpen, PReadFail, PLargeErr, PLarge, PExact, PZero>>
ListBatched ==
  <<PSmall, PSmall2, PSmall, PLarge, PSmall2, EmptyPath, PSmall, PSmall2, PSmall,
    PSmall2, PSmall, PNoOpen, PSmall, PSmall2, PSmall, PSmall2, PExact>>
ListThree == <<PSmall, PNoOpen, PLarge>>
ListTwo == <<PLargeErr, PSmall>>
ListTwoReversed == <<PSmall, PLargeErr>>

RichLists == {<< >>, ListAllKinds, ListBatched, ListThree}
SmallLists == {ListThree, ListTwo}

InitEngine(hws) ==
  /\ fs = EngineFiles
  /\ hwRaw \in hws
  /\ gActive = 0
  /\ inv = [i \in Invocations |-> IdleInvocation]
  /\ CacheIdle
  /\ LibIdle

NextEngine(invs, lists, concs) ==
  \/ \E i \in invs, files \in lists, c \in concs : Call(i, files, c)
  \/ \E i \in invs, files \in lists, c \in concs : CallOutOfMemory(i, files, c)
  \/ \E i \in invs : RunSize(i)
  \/ \E i \in invs : RunSlabFail(i)
  \/ \E i \in invs : RunSpawn(i)
  \/ \E i \in invs : Claim(i)
  \/ \E i \in invs : \E p \in Positions(i) : HashFile(i, p)
  \/ \E i \in invs : RunJoin(i)
  \/ \E i \in invs : Settle(i)
  \/ \E i \in invs : Return(i)

(* one invocation over every kind of file, every thread count *)
SpecEngine == InitEngine({1, 3}) /\ [][NextEngine({1}, RichLists, {0, 1, 2, 20})]_vars

(* several invocations at once, on a machine of three processors *)
SpecMulti == InitEngine({3}) /\ [][NextEngine(Invocations, SmallLists, {0, 1})]_vars

----------------------------------------------------------------------------
(* Properties of the engine *)

Slots(i) == DOMAIN inv[i].out

PathOf(i, k) == inv[i].files[k + 1]

(* a file that cannot be hashed: empty path, no open, or a read that fails *)
FailsToRead(path) ==
  \/ path = EmptyPath
  \/ ~FileAt(path).canOpen
  \/ FileAt(path).errAt # -1

(* the per-file digest: XXH3-128 of the file's bytes, zero when unreadable *)
PerFileDigest(path) ==
  IF FailsToRead(path) THEN ZeroHash
  ELSE XXH3_128bits(FileAt(path).data, FileAt(path).size)

Running == {i \in Invocations : inv[i].pc = "running"}

RECURSIVE SumTc(_)
SumTc(S) == IF S = {} THEN 0 ELSE LET i == CHOOSE x \in S : TRUE IN inv[i].tc + SumTc(S \ {i})

RECURSIVE SumThreads(_)
SumThreads(S) ==
  IF S = {} THEN 0 ELSE LET i == CHOOSE x \in S : TRUE IN ThreadsOf(i) + SumThreads(S \ {i})

(* C1: when run has returned true, output slot k holds the per-file digest *)
(* of path k, for every k, whatever the interleaving of the threads was.   *)
C1_InputOrder ==
  \A i \in Invocations :
    inv[i].runResult = "true" =>
      \A k \in Slots(i) : inv[i].out[k] = PerFileDigest(PathOf(i, k))

C1_Witness ==
  /\ inv[1].runResult = "true"
  /\ inv[1].files = ListAllKinds
  /\ inv[1].concurrency = 0
  /\ hwRaw = 3

(* C2: no index is claimed twice and, once run has returned true, every    *)
(* index was claimed exactly once; the threads hashing at any moment hold  *)
(* disjoint index ranges, so no two of them write the same slot.           *)
C2_ClaimedOnce ==
  \A i \in Invocations :
    /\ \A k \in Slots(i) : inv[i].claimed[k] <= 1
    /\ inv[i].runResult = "true" => \A k \in Slots(i) : inv[i].claimed[k] = 1
    /\ \A p \in Positions(i) :
         p.pc = "hash" =>
           /\ CopiesIn(p, inv[i].thr) = 1
           /\ \A q \in Positions(i) \ {p} :
                q.pc = "hash" => (p.batch_end <= q.idx \/ q.batch_end <= p.idx)

C2_Witness ==
  /\ inv[1].pc = "running"
  /\ inv[1].files = ListBatched
  /\ inv[1].work_batch = 2
  /\ \E p, q \in Positions(1) :
       /\ p.pc = "hash" /\ q.pc = "hash" /\ p # q
       /\ q.batch_end = Len(ListBatched) /\ q.idx = q.batch_end - 1

(* C3: a run with concurrency 1 and a run with any other concurrency over  *)
(* the same paths and files leave the same output.                         *)
C3_SameAsSingleThread ==
  \A a, b \in Invocations :
    ( /\ inv[a].runResult = "true" /\ inv[b].runResult = "true"
      /\ inv[a].files = inv[b].files
      /\ inv[a].concurrency = 1 )
    => inv[a].out = inv[b].out

C3_Witness ==
  /\ inv[1].runResult = "true" /\ inv[1].concurrency = 1
  /\ inv[2].pc = "running" /\ inv[2].concurrency = 0 /\ inv[2].files = inv[1].files
  /\ ThreadsOf(2) > 1
  /\ \A k \in Slots(2) : inv[2].out[k] # Uninit

(* C4: an invocation that has sized itself has at least one thread, and    *)
(* sizing and spawning are enabled whatever the counter holds.             *)
C4_AtLeastOneThread ==
  \A i \in Invocations :
    /\ inv[i].pc \in {"sized", "running"} => inv[i].tc >= 1
    /\ inv[i].pc = "running" => ThreadsOf(i) >= 1
    /\ inv[i].pc = "execute" => ENABLED RunSize(i)
    /\ inv[i].pc = "sized" => ENABLED RunSpawn(i)

C4_Witness ==
  /\ gActive >= HardwareParallelism(hwRaw)
  /\ inv[2].pc = "execute"
  /\ ENABLED RunSize(2)
  /\ inv[1].pc = "running" /\ inv[1].tc = HardwareParallelism(hwRaw)

(* C5: the counter is the sum of the thread counts of the invocations      *)
(* between their fetch_add and their fetch_sub, threads exist only in such *)
(* invocations, and the counter is 0 when there is none.                   *)
C5_CounterIsSum ==
  /\ gActive = SumTc(Running)
  /\ \A i \in Invocations : inv[i].thr # EmptyBag => i \in Running
  /\ Running = {} => gActive = 0

C5_Witness ==
  /\ Running = {}
  /\ gActive = 0
  /\ \A i \in Invocations : inv[i].runResult = "true"

(* C6, as stated: the threads of the running invocations number at most    *)
(* the hardware parallelism plus the number of these invocations.          *)
C6_Original ==
  SumThreads(Running) <= HardwareParallelism(hwRaw) + Cardinality(Running)

(* C6, amended: each invocation has at most hardware-parallelism threads,  *)
(* so the threads of the running invocations number at most the hardware   *)
(* parallelism times the number of these invocations.                      *)
C6_Amended ==
  /\ \A i \in Running : ThreadsOf(i) <= HardwareParallelism(hwRaw)
  /\ SumThreads(Running) <= HardwareParallelism(hwRaw) * Cardinality(Running)
  /\ gActive <= HardwareParallelism(hwRaw) * Cardinality(Running)

C6_Witness ==
  /\ Cardinality(Running) = 2
  /\ SumThreads(Running) = 2 * HardwareParallelism(hwRaw)

(* C7: a file that fails does not stop the batch: a thread leaves only     *)
(* when the indexes are used up, and after run the slot of every failing   *)
(* file is 16 zero bytes while every other slot holds the hash of the      *)
(* whole file.                                                             *)
C7_PerFileFailure ==
  \A i \in Invocations :
    /\ AtExit \in Positions(i) => inv[i].next_index >= FileCount(i)
    /\ inv[i].runResult = "true" =>
         \A k \in Slots(i) :
           LET path == PathOf(i, k) IN
           IF FailsToRead(path)
             THEN inv[i].out[k] = ZeroHash
             ELSE /\ inv[i].out[k] = XXH3_128bits(FileAt(path).data, FileAt(path).size)
                  /\ inv[i].out[k] \notin {ZeroHash, Uninit}

C7_Witness ==
  /\ inv[1].runResult = "true"
  /\ inv[1].files = ListAllKinds
  /\ \E k \in Slots(1) : inv[1].out[k] = ZeroHash /\ PathOf(1, k) = PLargeErr
  /\ \E k \in Slots(1) : inv[1].out[k] # ZeroHash /\ PathOf(1, k) = PLarge

(* C8: a bulk operation whose slab allocation failed is rejected with an   *)
(* out-of-memory error.                                                    *)
C8_SlabFailureIsFatal ==
  \A i \in Invocations :
    (inv[i].pc = "settled" /\ inv[i].runResult = "false")
      => inv[i].settled = "rejected: out of memory"

----------------------------------------------------------------------------
(* Properties of the cache *)

(* the last operation was a validate whose old state was loaded from the   *)
(* file written after a validate of the same list, under the same          *)
(* configuration, over the files as they are still                         *)
Revalidated ==
  /\ res.op = "validate"
  /\ res.origin # None
  /\ res.basis = res.origin

(* a string the path encodings carry as it is: no NUL, no lone surrogate *)
WellFormedPath(p) == \A k \in 1 .. Len(p) : p[k] # NUL /\ ~IsLoneSurrogate(p[k])

Mentions(message, word) == \E k \in 1 .. Len(message) : message[k] = word

(* C9: a validate that follows validate, write and reopen, over the same   *)
(* list in the same order with no file changed, returns changed = false    *)
(* and rehashed = 0, whatever the list.                                    *)
C9_RevalidateUnchanged ==
  Revalidated => (res.changed = FALSE /\ res.rehashed = 0)

(* ... which does hold of the lists whose paths are well-formed strings    *)
(* without NUL                                                             *)
RevalidateWellFormed ==
  (Revalidated /\ \A k \in 1 .. Len(res.origin[1].files) : WellFormedPath(res.origin[1].files[k]))
    => (res.changed = FALSE /\ res.rehashed = 0)

RevalidateWellFormedReached ==
  /\ Revalidated
  /\ Len(res.origin[1].files) > 1
  /\ \A k \in 1 .. Len(res.origin[1].files) : WellFormedPath(res.origin[1].files[k])

(* C10: write on a cache that holds no validated state fails, and the      *)
(* error's message mentions validate.                                      *)
C10_WriteNeedsValidate ==
  (res.op = "write" /\ ~res.validated) => Mentions(res.error, "validate()")

C10_Witness ==
  /\ res.op = "write"
  /\ ~res.validated
  /\ cache.headerValid
  /\ res.error = WriteBeforeValidateMessage

(* the paths of a validate whose stat succeeded, by index *)
Statted(r) == SelectSeq([i \in 1 .. Len(r.files) |-> i], LAMBDA i : r.stats[i] # None)

Degraded == {"missing", "short", "magic", "version", "fingerprint"}

(* C11: open does not fail on a cache file that is missing, cut inside its *)
(* header, of a wrong magic, of another version or of another fingerprint: *)
(* it leaves the cache with headerValid false and no old entries, and a    *)
(* validate that runs on that open reports changed = true and hashes every *)
(* path whose stat succeeds.                                               *)
C11_OpenDegrades ==
  /\ res.op = "open" => res.error = << >>
  /\ (res.op = "open" /\ hist.opened \in Degraded) =>
        /\ ~cache.headerValid
        /\ cache.oldPaths = None /\ cache.oldEntries = None /\ cache.oldDigest = None
  /\ (res.op = "validate" /\ res.error = << >> /\ res.opened \in Degraded) =>
        /\ res.changed
        /\ res.queued = Statted(res)
        /\ res.rehashed = Len(Statted(res))

C11_Witness ==
  /\ res.op = "validate"
  /\ res.error = << >>
  /\ res.opened = "version"
  /\ res.changed
  /\ res.rehashed = 2

C11_WitnessCorrupt ==
  /\ res.op = "validate"
  /\ res.opened \in {"short", "magic", "missing", "fingerprint"}
  /\ res.rehashed >= 1

(* index i of a finished validate: the old map it began with holds an     *)
(* entry for the path with the identity the stat returned                  *)
Reusable(r, i) ==
  /\ r.oldMap # None
  /\ r.stats[i] # None
  /\ r.files[i] \in DOMAIN r.oldMap[1]
  /\ r.oldMap[1][r.files[i]] # None
  /\ LET old == r.oldMap[1][r.files[i]][1]
         now == r.stats[i][1]
     IN old.ino = now.ino /\ old.mtimeNs = now.mtimeNs /\ old.ctimeNs = now.ctimeNs
        /\ old.size = now.size

Enqueued(r, i) == \E j \in 1 .. Len(r.queued) : r.queued[j] = i

ValidateDone == res.op = "validate" /\ res.error = << >>

C13_ChangedIffDigestDiffers ==
  ValidateDone =>
    (res.changed <=> (res.loaded = None \/ res.loaded[1] # res.digest[1]))

(* a validate of files that returns changed = false *)
C13_Witness ==
  /\ ValidateDone
  /\ Len(res.files) > 0
  /\ res.loaded # None
  /\ ~res.changed

(* a validate that finds a loaded digest and returns changed = true *)
C13_DigestDiffersReached ==
  /\ ValidateDone
  /\ res.loaded # None
  /\ res.changed

(* a cache file with its whole header and the sections the header counts *)
IsComplete(image) ==
  /\ image.headerLen = HEADER_SIZE
  /\ image.magic = MAGIC
  /\ Len(image.entries) = image.entryCount
  /\ Len(image.paths) = image.pathsLen

(* C14: with one writer, the destination of write is at every moment      *)
(* absent or a complete image: while a write is in flight, and after one   *)
(* that failed or died, it is what it was before the write; after one that *)
(* returned it is the complete image that write serialized.                *)
C14_WriteAtomic ==
  /\ disk = None \/ IsComplete(disk[1])
  /\ io.pc # "idle" => disk = io.prev
  /\ (io.pc = "idle" /\ (res.op = "crash" \/ (res.op = "write" /\ res.error = <<"EIO">>))) =>
        disk = io.prev
  /\ (io.pc = "idle" /\ res.op = "write" /\ res.error = << >>) =>
        (disk = io.buf /\ IsComplete(io.buf[1]))

(* a write dies with part of the image in the temporary file, over a       *)
(* destination that holds an earlier image                                 *)
C14_Witness ==
  /\ res.op = "crash"
  /\ disk # None
  /\ io.tmp # None
  /\ ~IsComplete(io.tmp[1])
  /\ io.buf # disk

(* a write replaces an earlier image with a different one *)
C14_ReplacedReached ==
  /\ res.op = "write"
  /\ res.error = << >>
  /\ io.prev # None
  /\ io.prev # disk

C16_CloseIdempotent ==
  res.op = "close" =>
    /\ res.error = << >>
    /\ io.handles = 0
    /\ cache = FreshCache(cache.cfg)

(* a close right after a close *)
C16_Witness ==
  /\ res.op = "close"
  /\ res.again
  /\ io.handles = 0

(* the backend is ready: what a successful init leaves *)
InitSucceeded(i) ==
  \/ i.nativeCtor
  \/ i.initPromise # None /\ i.initPromise[1].state = "fulfilled"

Backend(i) ==
  <<i.nativeCtor, i.nativeLoadFailed, i.initPromise, i.wasmModule, i.wasmInitPromise,
    i.libraryStatus, i.bodyRuns, i.wasmRuns>>

(* C17: the body of init runs at most once (and so does the body of the   *)
(* wasm init), every caller that is not answered with a resolved promise   *)
(* is given the one promise of that run, and an init call made after init  *)
(* succeeded changes nothing.                                              *)
C17_InitOnce ==
  /\ [](/\ init.bodyRuns <= 1
        /\ init.wasmRuns <= 1
        /\ \A k \in 1 .. Len(init.given) : init.given[k] \in {0, 1}
        /\ \A k \in 1 .. Len(init.given) : init.given[k] = 0 => init.nativeCtor)
  /\ [][(init'.calls # init.calls /\ InitSucceeded(init)) => Backend(init') = Backend(init)]_vars

(* three init calls made before the wasm module is compiled *)
C17_Witness ==
  /\ init.given = <<1, 1, 1>>
  /\ init.initPromise[1].state = "pending"
  /\ init.bodyRuns = 1

(* an init call after init succeeded with the native binding *)
C17_NoOpReached ==
  /\ Len(init.given) >= 2
  /\ init.given[Len(init.given)] = 0

BothConsumed == codec.native # None /\ codec.portable # None

(* the native segments as strings *)
NativePaths == [k \in 1 .. Len(codec.native[1]) |-> Utf8Decode(codec.native[1][k])]

(* C18: the native path index and the portable decoder derive the same    *)
(* list of paths from the same buffer, with or without a NUL at its end.   *)
C18_SameList ==
  BothConsumed => NativePaths = codec.portable[1]

(* for a buffer that is empty or ends in NUL the two lists are the same *)
SameListTerminated ==
  (BothConsumed /\ (codec.buf = << >> \/ codec.buf[Len(codec.buf)] = NUL)) =>
    NativePaths = codec.portable[1]

SameListTerminatedReached ==
  /\ BothConsumed
  /\ Len(codec.buf) = 3
  /\ codec.buf[3] = NUL
  /\ Len(codec.portable[1]) = 2

ReadDone == res.op \in {"readRawData", "readGzipData"}

(* C19: after open rejected the header for its version or fingerprint,     *)
(* readRawData and readGzipData return no item of the rejected file.       *)
C19_RejectedDataUnused ==
  (ReadDone /\ res.held # None /\ Damage(res.held, cache.cfg) \in {"version", "fingerprint"}) =>
    res.items = << >>

(* the section a reader read is shorter in the file than the header says *)
SectionCut(r) ==
  /\ r.held # None
  /\ IF r.op = "readRawData" THEN Len(r.held[1].raw) < r.held[1].rawDataLen
                               ELSE r.held[1].gzip # EMPTY /\ ~r.held[1].gzip[1].intact

SectionEmpty(r) ==
  /\ r.held # None
  /\ IF r.op = "readRawData" THEN r.held[1].rawItemCount = 0
                               ELSE r.held[1].gzipItemCount = 0

(* C20: readRawData and readGzipData never fail, and return the empty list *)
(* when no file is open, when the read fails, when the section is cut      *)
(* short in the file, and when the section is empty.                       *)
C20_EmptyOnError ==
  ReadDone =>
    /\ res.error = << >>
    /\ (res.held = None \/ ~res.ioOk \/ SectionCut(res) \/ SectionEmpty(res)) =>
          res.items = << >>

(* the readers never fail, and return the empty list in each of the cases  *)
(* but that of a section cut short                                         *)
EmptyOnDetectedError ==
  ReadDone =>
    /\ res.error = << >>
    /\ (res.held = None \/ ~res.ioOk \/ SectionEmpty(res)) => res.items = << >>

EmptyOnDetectedErrorReached ==
  /\ res.op = "readGzipData"
  /\ res.held # None
  /\ ~SectionEmpty(res)
  /\ ~res.ioOk

(* the readers return the items written, from a file read as written *)
ItemsReadBack ==
  /\ res.op = "readRawData"
  /\ res.items = <<StringItem("one"), BufferItem("two")>>
  /\ cache.headerValid

(* the NUL-terminated segments of a paths section *)
RECURSIVE NulCount(_)
NulCount(buf) ==
  IF buf = << >> THEN 0
  ELSE (IF Head(buf) = NUL THEN 1 ELSE 0) + NulCount(Tail(buf))

(* C21: in a cache file that write produced, entryCount is the number of   *)
(* entries and the number of NUL-terminated segments of the paths section, *)
(* whatever the validated list.                                            *)
C21_EntryCountIsSegments ==
  disk # None =>
    /\ Len(disk[1].entries) = disk[1].entryCount
    /\ NulCount(disk[1].paths) = disk[1].entryCount

(* ... which does hold of the files written from lists with no NUL in a path *)
EntryCountNoNul ==
  (disk # None /\ hist.disk # None
     /\ \A k \in 1 .. Len(hist.disk[1].files) : ~HasNul(hist.disk[1].files[k])) =>
    /\ Len(disk[1].entries) = disk[1].entryCount
    /\ NulCount(disk[1].paths) = disk[1].entryCount
    /\ disk[1].entryCount = Len(hist.disk[1].files)

EntryCountNoNulReached ==
  /\ disk # None
  /\ hist.disk # None
  /\ Len(hist.disk[1].files) = 4
  /\ \A k \in 1 .. Len(hist.disk[1].files) : ~HasNul(hist.disk[1].files[k])

----------------------------------------------------------------------------
(* The bulk facade: static hashFilesBulk, and a hasher instance with       *)
(* update, digest and updateFilesBulk.  An output is a sequence of 16-byte *)
(* units; the streaming state is the seed and the units it was fed.        *)

MaxUpdates == 1

(* XXH3_128bits_withSeed of a block; a streaming state reset with the seed *)
(* and fed the same bytes digests to the same value                        *)
XXH3_128bits_withSeed(input, seed) == <<"seeded", seed, input>>

XXH3_128bits_reset_withSeed(seed) == [seed |-> seed, fed |-> << >>, final |-> FALSE]

XXH3_128bits_update(state, input) == [state EXCEPT !.fed = @ \o input]

(* a finalized state digests to no digest of its input *)
XXH3_128bits_digest(state) ==
  IF state.final THEN <<"finalized", state.seed, state.fed>>
  ELSE XXH3_128bits_withSeed(state.fed, state.seed)

(* a JS number n = hi * 2^32 + lo, lo < 2^32 *)
Num(hi, lo) == [hi |-> hi, lo |-> lo]

(* Napi::Number::Uint32Value: the number modulo 2^32 *)
Uint32Value(n) == n.lo

(* n + needed > byteLength in JS numbers, byteLength < 2^32 *)
Exceeds(n, needed, byteLength) == n.hi > 0 \/ n.lo + needed > byteLength

(* HashFilesWorker::run over the segments of a path buffer, joined *)
RunEngine(pathsBuf) ==
  LET segments == PathIndex(pathsBuf)
  IN [j \in 1 .. Len(segments) |-> HashOneFile(segments[j])]

(* StaticHashFilesWorker::Execute, file_count > 0 *)
(* per-file output with the aggregate in front of it *)
ExecuteWithAggregate(file_hashes, seed, mode) ==
  <<XXH3_128bits_withSeed(file_hashes, seed)>> \o file_hashes

ExecuteSome(file_hashes, seed, mode) ==
  CASE mode = "ALL" -> <<XXH3_128bits_withSeed(file_hashes, seed)>> \o file_hashes
    [] mode = "FILES_ONLY" -> file_hashes
    [] OTHER -> <<XXH3_128bits_withSeed(file_hashes, seed)>>

(* 16 zero bytes where the seeded hash of no input belongs *)
EmptyHashZero(seed) == ZeroHash

(* StaticHashFilesWorker::Execute, file_count = 0: empty_hash *)
EmptyHash(seed) == XXH3_128bits_withSeed(<< >>, seed)

ExecuteNone(seed, mode) ==
  CASE mode = "FILES_ONLY" -> << >>
    [] OTHER -> <<EmptyHash(seed)>>

(* XXHash128Wrap::HashFilesBulk: the mode from the char code of outputMode *)
ModeOf(what) ==
  IF what = "files" THEN "FILES_ONLY" ELSE IF what = "all" THEN "ALL" ELSE "DIGEST_ONLY"

(* StaticHashFilesWorker::Execute and OnOK: what the promise resolves with *)
StaticExecute(pathsBuf, seed, mode) ==
  LET file_hashes == RunEngine(pathsBuf)
  IN IF Len(file_hashes) > 0 THEN ExecuteSome(file_hashes, seed, mode)
     ELSE ExecuteNone(seed, mode)

(* a call's outcome: how its promise settled, the bytes it returned, and   *)
(* where bytes were written into the caller's buffer                       *)
Outcome(op, files, seed, what, out, off, settled, value, at) ==
  [op |-> op, files |-> files, seed |-> seed, what |-> what, out |-> out,
   off |-> off, settled |-> settled, value |-> value, at |-> at]

(* nativeStaticHashFilesBulk; out is the byteLength of outputBuffer *)
nativeStaticHashFilesBulk(files, what, seed, out, off) ==
  LET result == StaticExecute(encodeFilePaths(files), seed, ModeOf(what))
  IN /\ hasher' = [hasher EXCEPT !.static =
          Some(IF out = None
                 THEN Outcome("hashFilesBulk", files, seed, what, out, off, "resolved", result, None)
               ELSE IF Exceeds(off, 16 * Len(result), out[1])
                 THEN Outcome("hashFilesBulk", files, seed, what, out, off, "RangeError", << >>, None)
               ELSE Outcome("hashFilesBulk", files, seed, what, out, off, "resolved", result, Some(off)))]
     /\ UNCHANGED <<fs, engineVars, cacheVars, io, init, codec, manager>>

(* ---- the hasher instance ---- *)

(* new XXHash128(seedLow, seedHigh) on a backend *)
NewHasher(backend, seed) ==
  /\ hasher.call = None
  /\ hasher' = [hasher EXCEPT
                  !.state = Some(XXH3_128bits_reset_withSeed(seed)),
                  !.backend = backend, !.updates = << >>, !.last = None]
  /\ UNCHANGED <<fs, engineVars, cacheVars, io, init, codec, manager>>

(* what was fed to the streaming state, and how far the call in flight had *)
(* got when it was fed                                                     *)
Fed(block, by) ==
  [block |-> block, by |-> by,
   done |-> IF hasher.call = None THEN 0 ELSE hasher.call[1].done,
   count |-> IF hasher.call = None THEN 0 ELSE Len(hasher.call[1].hashes)]

(* XXHash128Wrap::Update / wasmUpdate *)
Update(data) ==
  /\ hasher.state # None
  /\ Len(hasher.updates) < MaxUpdates
  /\ hasher' = [hasher EXCEPT
                  !.state = Some(XXH3_128bits_update(hasher.state[1], data)),
                  !.updates = Append(@, Fed(data, "update"))]
  /\ UNCHANGED <<fs, engineVars, cacheVars, io, init, codec, manager>>

(* Hash_Final: the digest goes to the buffer, the state is consumed *)
Hash_Final(state) == [state EXCEPT !.final = TRUE]

(* the state left as Hash_Final made it *)
wasmFinalizeWithoutRestore(saved, finalized) == finalized

(* wasmFinalizeWithRestore: the saved state is copied back *)
wasmFinalizeWithRestore(saved, finalized) == saved

(* XXHash128Wrap::Digest / wasmDigest *)
Digest ==
  /\ hasher.state # None
  /\ LET state == hasher.state[1]
         value == XXH3_128bits_digest(state)
     IN hasher' = [hasher EXCEPT
           !.state = IF hasher.backend = "native" THEN Some(state)
                     ELSE Some(wasmFinalizeWithRestore(state, Hash_Final(state))),
           !.last = Some(Outcome("digest", << >>, state.seed, "", None, Num(0, 0),
                                 "returned", <<value>>, None))]
  /\ UNCHANGED <<fs, engineVars, cacheVars, io, init, codec, manager>>

(* a bulk call in flight: its paths, where its output goes, the per-file   *)
(* hashes computed so far                                                  *)
BulkCall(files, what, out, off, at, hashes) ==
  [files |-> files, what |-> what, out |-> out, off |-> off, at |-> at,
   hashes |-> hashes, done |-> 0]

(* InstanceHashWorker::set_external_output: the error, or none *)
set_external_output(pathsBuf, len, off) ==
  LET offset == Uint32Value(off)
      file_count == NulCount(pathsBuf)
  IN IF offset > len THEN Some("RangeError")
     ELSE IF file_count * 16 > len - offset THEN Some("RangeError")
     ELSE None

(* nativeUpdateFilesBulk and XXHash128Wrap::HashFilesUpdate, up to Queue() *)
nativeUpdateFilesBulk(files, what, out, off) ==
  LET pathsBuf == encodeFilePaths(files)
      seed == hasher.state[1].seed
  IN IF Len(pathsBuf) = 0
       THEN hasher' = [hasher EXCEPT !.last =
              Some(Outcome("updateFilesBulk", files, seed, what, out, off, "resolved", << >>, None))]
     ELSE IF what = "output" /\ set_external_output(pathsBuf, out[1], off) # None
       THEN hasher' = [hasher EXCEPT !.last =
              Some(Outcome("updateFilesBulk", files, seed, what, out, off,
                           set_external_output(pathsBuf, out[1], off)[1], << >>, None))]
     ELSE hasher' = [hasher EXCEPT
              !.last = None,
              !.call = Some(BulkCall(files, what, out, off,
                                     IF what = "output" THEN Some(Num(0, Uint32Value(off))) ELSE None,
                                     RunEngine(pathsBuf)))]

(* the per-file hash of _hashFileBuffers: zero where fsReadFile threw *)
HashFileBuffer(path) ==
  IF HasNul(path) THEN ZeroHash ELSE HashOneFile(Utf8Encode(path))

(* XXHash128Base.updateFilesBulk up to the first await *)
baseUpdateFilesBulk(files, what, out, off) ==
  LET seed == hasher.state[1].seed
  IN IF Len(files) = 0
       THEN hasher' = [hasher EXCEPT !.last =
              Some(Outcome("updateFilesBulk", files, seed, what, out, off, "resolved", << >>, None))]
     ELSE hasher' = [hasher EXCEPT
              !.last = None,
              !.call = Some(BulkCall(files, what, out, off, None,
                                     [i \in 1 .. Len(files) |-> HashFileBuffer(files[i])]))]

(* hasher.updateFilesBulk(files, allFilesOrOutput, outputOffset) *)
UpdateFilesBulk(files, what, out, off) ==
  /\ hasher.state # None
  /\ hasher.call = None
  /\ Len(hasher.updates) < MaxUpdates
  /\ (what = "output") = (out # None)
  /\ IF hasher.backend = "native" THEN nativeUpdateFilesBulk(files, what, out, off)
     ELSE baseUpdateFilesBulk(files, what, out, off)
  /\ UNCHANGED <<fs, engineVars, cacheVars, io, init, codec, manager>>

(* one file of the call has been read and hashed *)
BulkHashFile ==
  /\ hasher.call # None
  /\ hasher.call[1].done < Len(hasher.call[1].hashes)
  /\ hasher' = [hasher EXCEPT !.call = Some([hasher.call[1] EXCEPT !.done = @ + 1])]
  /\ UNCHANGED <<fs, engineVars, cacheVars, io, init, codec, manager>>

(* the hashes fed to the state file by file *)
FeedPerFile(hashes) == [i \in 1 .. Len(hashes) |-> <<hashes[i]>>]

(* the hashes fed to the state as one block *)
FeedBlock(hashes) == <<hashes>>

RECURSIVE FeedAll(_, _)
FeedAll(state, blocks) ==
  IF blocks = << >> THEN state
  ELSE FeedAll(XXH3_128bits_update(state, Head(blocks)), Tail(blocks))

(* Execute has returned: every worker thread has been joined *)
BulkJoined == hasher.call[1].done = Len(hasher.call[1].hashes)

(* InstanceHashWorker::OnOK, or the rest of XXHash128Base.updateFilesBulk  *)
(* after Promise.all                                                       *)
BulkFinish ==
  /\ hasher.call # None
  /\ BulkJoined
  /\ LET call == hasher.call[1]
         seed == hasher.state[1].seed
         blocks == FeedBlock(call.hashes)
         rejected == /\ hasher.backend # "native"
                     /\ call.what = "output"
                     /\ Exceeds(call.off, 16 * Len(call.hashes), call.out[1])
     IN hasher' = [hasher EXCEPT
           !.state = Some(FeedAll(hasher.state[1], blocks)),
           !.updates = @ \o [i \in 1 .. Len(blocks) |-> Fed(blocks[i], "bulk")],
           !.call = None,
           !.last = Some(
             IF rejected
               THEN Outcome("updateFilesBulk", call.files, seed, call.what, call.out, call.off,
                            "RangeError", << >>, None)
             ELSE Outcome("updateFilesBulk", call.files, seed, call.what, call.out, call.off,
                          "resolved",
                          IF call.what = "aggregate" THEN << >> ELSE call.hashes,
                          IF call.what # "output" THEN None
                          ELSE IF hasher.backend = "native" THEN call.at ELSE Some(call.off)))]
  /\ UNCHANGED <<fs, engineVars, cacheVars, io, init, codec, manager>>

(* ---- the bulk facade taken through its calls ---- *)

BulkFiles ==
  (PSmall :> RegularFile(1, 12)) @@
  (PZero :> RegularFile(2, 0)) @@
  (PNoOpen :> [RegularFile(6, 9) EXCEPT !.canOpen = FALSE])

BulkLists == {<< >>, <<PSmall>>, <<PNoOpen, PWithNul, PSmall>>}

OutputLists == {<< >>, <<PSmall>>}

Seeds == {0, 7}

(* outputBuffer: its byteLength *)
OutputBuffers == {Some(16), Some(32)}

(* outputOffset: 0, 16, and 2^32 *)
OutputOffsets == {Num(0, 0), Num(0, 16), Num(1, 0)}

DataBlocks == {<<<<"data", 1, 0>>>>}

InitBulk ==
  /\ fs = BulkFiles
  /\ EngineIdle
  /\ CacheIdle
  /\ LibIdle

NextBulk(lists, seeds, outs, offs) ==
  \/ \E files \in lists, what \in {"digest", "files", "all"}, seed \in seeds,
        out \in outs, off \in offs :
       nativeStaticHashFilesBulk(files, what, seed, out, off)
  \/ \E backend \in {"native", "wasm"}, seed \in seeds : NewHasher(backend, seed)
  \/ \E data \in DataBlocks : Update(data)
  \/ Digest
  \/ \E files \in lists, what \in {"aggregate", "allFiles", "output"},
        out \in outs, off \in offs :
       UpdateFilesBulk(files, what, out, off)
  \/ BulkHashFile
  \/ BulkFinish

(* the facade without output buffers *)
SpecBulk == InitBulk /\ [][NextBulk(BulkLists, Seeds, {None}, {Num(0, 0)})]_vars

(* the facade writing into the caller's buffer *)
SpecOutput == InitBulk /\ [][NextBulk(OutputLists, {0}, OutputBuffers, OutputOffsets)]_vars

----------------------------------------------------------------------------
(* result bytes that do not fit the caller's buffer at the offset *)
TooSmall(o, units) == o.out # None /\ Exceeds(o.off, 16 * units, o.out[1])

StaticUnits(o) == Len(StaticExecute(encodeFilePaths(o.files), o.seed, ModeOf(o.what)))

BulkSettled == hasher.last # None /\ hasher.last[1].op = "updateFilesBulk"

(* C22: a bulk call (static hashFilesBulk, instance updateFilesBulk) whose *)
(* output buffer is too small to hold the result at the given offset is    *)
(* rejected with a RangeError.                                             *)
C22_TooSmallIsRange ==
  /\ (hasher.static # None /\ TooSmall(hasher.static[1], StaticUnits(hasher.static[1])))
       => hasher.static[1].settled = "RangeError"
  /\ (BulkSettled /\ TooSmall(hasher.last[1], Len(hasher.last[1].files)))
       => hasher.last[1].settled = "RangeError"

(* what the code does guarantee: the rejection when the offset is below    *)
(* 2^32 and there is at least one file                                     *)
RangeWithinWidth ==
  /\ (hasher.static # None /\ TooSmall(hasher.static[1], StaticUnits(hasher.static[1])))
       => hasher.static[1].settled = "RangeError"
  /\ (/\ BulkSettled
      /\ TooSmall(hasher.last[1], Len(hasher.last[1].files))
      /\ hasher.last[1].off.hi = 0
      /\ hasher.last[1].files # << >>)
       => hasher.last[1].settled = "RangeError"

RangeWithinWidthReached ==
  /\ BulkSettled
  /\ TooSmall(hasher.last[1], Len(hasher.last[1].files))
  /\ hasher.last[1].off.hi = 0
  /\ hasher.last[1].files # << >>
  /\ hasher.backend = "native"

(* an offset of 2^32 taken for 0: the call resolves and the hashes are in  *)
(* the buffer at offset 0                                                  *)
WrappedOffsetWritten ==
  /\ BulkSettled
  /\ hasher.last[1].files # << >>
  /\ hasher.last[1].off = Num(1, 0)
  /\ hasher.last[1].settled = "resolved"
  /\ hasher.last[1].at = Some(Num(0, 0))

----------------------------------------------------------------------------
(* the digest the engine owes a path of the list *)
DigestOfPath(path) == IF HasNul(path) THEN ZeroHash ELSE HashOneFile(Utf8Encode(path))

StaticResolved == hasher.static # None /\ hasher.static[1].settled = "resolved"

(* C23: for N input paths static hashFilesBulk resolves with 16 bytes in   *)
(* digest mode, 16*N bytes in files mode and 16 + 16*N bytes in all mode,  *)
(* the aggregate digest first and the per-file digests after it in input   *)
(* order; for N = 0 that is 16, 0 and 16 bytes.                            *)
C23_OutputSizes ==
  StaticResolved =>
    LET o == hasher.static[1]
        N == Len(o.files)
        perFile == [i \in 1 .. N |-> DigestOfPath(o.files[i])]
        aggregate == XXH3_128bits_withSeed(perFile, o.seed)
    IN CASE o.what = "digest" -> 16 * Len(o.value) = 16 /\ o.value = <<aggregate>>
         [] o.what = "files" -> 16 * Len(o.value) = 16 * N /\ o.value = perFile
         [] o.what = "all" ->
              /\ 16 * Len(o.value) = 16 + 16 * N
              /\ o.value = <<aggregate>> \o perFile
              /\ N = 0 => 16 * Len(o.value) = 16

C23_Witness ==
  /\ StaticResolved
  /\ hasher.static[1].what = "all"
  /\ Len(hasher.static[1].files) = 3
  /\ Len(hasher.static[1].value) = 4

C23_EmptyReached ==
  /\ StaticResolved
  /\ hasher.static[1].what = "files"
  /\ hasher.static[1].files = << >>
  /\ hasher.static[1].value = << >>

----------------------------------------------------------------------------
(* the hasher is a fresh one on which updateFilesBulk of the static call's *)
(* list has resolved, and nothing else was fed to it                       *)
FreshAfterSameList ==
  /\ StaticResolved
  /\ hasher.static[1].what # "files"
  /\ BulkSettled
  /\ hasher.last[1].settled = "resolved"
  /\ hasher.last[1].files = hasher.static[1].files
  /\ hasher.last[1].seed = hasher.static[1].seed
  /\ Len(hasher.updates) = (IF hasher.static[1].files = << >> THEN 0 ELSE 1)
  /\ \A i \in 1 .. Len(hasher.updates) : hasher.updates[i].by = "bulk"

(* C24: the aggregate digest of static hashFilesBulk over a list with a    *)
(* seed is the digest of a fresh hasher of that seed after updateFilesBulk *)
(* of the same list; for the empty list it is the seeded hash of no input, *)
(* not 16 zero bytes.                                                      *)
C24_StaticIsInstance ==
  FreshAfterSameList =>
    /\ hasher.static[1].value[1] = XXH3_128bits_digest(hasher.state[1])
    /\ hasher.static[1].files = << >> =>
         /\ hasher.static[1].value[1] = XXH3_128bits_withSeed(<< >>, hasher.static[1].seed)
         /\ hasher.static[1].value[1] # ZeroHash

C24_Witness ==
  /\ FreshAfterSameList
  /\ Len(hasher.static[1].files) = 3
  /\ hasher.static[1].seed = 7
  /\ hasher.backend = "native"

C24_EmptyReached ==
  /\ FreshAfterSameList
  /\ hasher.static[1].files = << >>
  /\ hasher.static[1].seed = 7

----------------------------------------------------------------------------
(* the entries of the feed history added by a step, and those fed by the   *)
(* bulk call                                                               *)
NewlyFed == SubSeq(hasher'.updates, Len(hasher.updates) + 1, Len(hasher'.updates))

FedByBulk(entries) == SelectSeq(entries, LAMBDA e : e.by = "bulk")

(* C29: instance updateFilesBulk feeds the block of N per-file hashes to   *)
(* the instance's streaming state exactly once, as one update, in the step *)
(* that ends the call, when every file has been hashed; no step before it  *)
(* feeds any hash of the call, and a call over no file feeds nothing (a    *)
(* newly constructed hasher has been fed nothing).                         *)
C29_FedOnceAfterJoin ==
  [][ IF hasher.call # None /\ hasher'.call = None
        THEN LET hashes == hasher.call[1].hashes
             IN /\ hasher.call[1].done = Len(hashes)
                /\ hasher'.updates = hasher.updates \o NewlyFed
                /\ NewlyFed = <<[block |-> hashes, by |-> "bulk",
                                 done |-> Len(hashes), count |-> Len(hashes)]>>
                /\ hasher'.state[1].fed = hasher.state[1].fed \o hashes
      ELSE \/ hasher'.updates = << >>
           \/ /\ hasher'.updates = hasher.updates \o NewlyFed
              /\ FedByBulk(NewlyFed) = << >>
    ]_vars

C29_Witness ==
  /\ hasher.backend = "native"
  /\ hasher.call = None
  /\ Len(hasher.updates) = 1
  /\ hasher.updates[1].by = "bulk"
  /\ hasher.updates[1].done = 3
  /\ Len(hasher.updates[1].block) = 3

(* the call is in flight with some but not all of its files hashed, and    *)
(* nothing has been fed                                                    *)
C29_MidCallReached ==
  /\ hasher.call # None
  /\ hasher.call[1].done = 1
  /\ Len(hasher.call[1].hashes) = 3
  /\ hasher.updates = << >>

----------------------------------------------------------------------------
(* everything update and updateFilesBulk fed to the hasher, in order *)
RECURSIVE FedSoFar(_)
FedSoFar(entries) ==
  IF entries = << >> THEN << >> ELSE Head(entries).block \o FedSoFar(Tail(entries))

DigestReturned == hasher.last # None /\ hasher.last[1].op = "digest"

(* C25: digest leaves the hasher's state as it was, on the native and the  *)
(* WASM backend: the state always holds exactly what was fed, every digest *)
(* call returns the hash of what was fed so far (so repeated calls return  *)
(* the same bytes), and an update after a digest continues from there.     *)
C25_DigestKeepsState ==
  /\ [](hasher.state # None =>
          /\ ~hasher.state[1].final
          /\ hasher.state[1].fed = FedSoFar(hasher.updates))
  /\ [][(hasher'.last # hasher.last /\ hasher'.last # None /\ hasher'.last[1].op = "digest") =>
          /\ hasher'.state = hasher.state
          /\ hasher'.last[1].value =
               <<XXH3_128bits_withSeed(FedSoFar(hasher.updates), hasher.state[1].seed)>>
       ]_vars

(* a digest was taken of the empty state on the WASM backend and an update *)
(* came after it                                                           *)
C25_Witness ==
  /\ DigestReturned
  /\ hasher.backend = "wasm"
  /\ hasher.last[1].value = <<XXH3_128bits_withSeed(<< >>, hasher.state[1].seed)>>
  /\ hasher.updates # << >>
  /\ hasher.state[1].fed = FedSoFar(hasher.updates)

C25_NativeReached ==
  /\ DigestReturned
  /\ hasher.backend = "native"
  /\ hasher.updates # << >>
  /\ hasher.last[1].value = <<XXH3_128bits_withSeed(FedSoFar(hasher.updates), hasher.state[1].seed)>>

----------------------------------------------------------------------------
(* The path codec taken through a round trip: a list is encoded, the       *)
(* buffer is decoded.                                                      *)

MaxPathLen == 2
MaxPaths == 2

(* a letter, NUL, and a lone surrogate *)
PathUnits == {1, NUL, 55296}

RECURSIVE StringsOf(_)
StringsOf(n) ==
  IF n = 0 THEN {<< >>}
  ELSE LET shorter == StringsOf(n - 1)
       IN shorter \cup {Append(p, c) : p \in {x \in shorter : Len(x) = n - 1}, c \in PathUnits}

RECURSIVE PathListsOf(_)
PathListsOf(n) ==
  IF n = 0 THEN {<< >>}
  ELSE LET shorter == PathListsOf(n - 1)
       IN shorter \cup {Append(l, p) : l \in {x \in shorter : Len(x) = n - 1},
                                       p \in StringsOf(MaxPathLen)}

(* encodeFilePaths(paths) *)
EncodePaths ==
  /\ codec.paths # None
  /\ ~codec.encoded
  /\ codec' = [codec EXCEPT !.buf = encodeFilePaths(codec.paths[1]), !.encoded = TRUE]
  /\ UNCHANGED <<fs, engineVars, cacheVars, io, init, hasher, manager>>

(* decodeFilePaths of the encoded buffer *)
DecodeEncoded ==
  /\ codec.encoded
  /\ DecodePaths

InitRoundTrip ==
  /\ fs = CacheFiles
  /\ EngineIdle
  /\ CacheIdle
  /\ io = IdleIO
  /\ init = IdleInit
  /\ hasher = IdleHasher
  /\ manager = None
  /\ \E P \in PathListsOf(MaxPaths) : codec = [IdleCodec EXCEPT !.paths = Some(P)]

NextRoundTrip ==
  \/ EncodePaths
  \/ DecodeEncoded

SpecRoundTrip == InitRoundTrip /\ [][NextRoundTrip]_vars

(* P with every path that contains a NUL replaced by the empty string *)
map_nul_to_empty(P) == [i \in 1 .. Len(P) |-> IF HasNul(P[i]) THEN << >> ELSE P[i]]

RoundTripped == codec.paths # None /\ codec.encoded /\ codec.portable # None

(* C26 as stated: for any path list P, decode(encode(P)) is P with every   *)
(* path that contains a NUL replaced by the empty string.                  *)
C26_Original ==
  RoundTripped => codec.portable[1] = map_nul_to_empty(codec.paths[1])

NoLoneSurrogate(p) == \A k \in 1 .. Len(p) : ~IsLoneSurrogate(p[k])

(* C26 amended: for any list P of well-formed strings (no unpaired         *)
(* surrogate), decode(encode(P)) is P with every path that contains a NUL  *)
(* replaced by the empty string; for any list P whatever the decoded list  *)
(* has the length of P.                                                    *)
C26_Amended ==
  RoundTripped =>
    /\ Len(codec.portable[1]) = Len(codec.paths[1])
    /\ (\A i \in 1 .. Len(codec.paths[1]) : NoLoneSurrogate(codec.paths[1][i]))
         => codec.portable[1] = map_nul_to_empty(codec.paths[1])

C26_Witness ==
  /\ RoundTripped
  /\ codec.paths[1] = <<<<1, NUL>>, <<1, 1>>>>
  /\ codec.portable[1] = <<<< >>, <<1, 1>>>>

----------------------------------------------------------------------------
(* write with a compression level *)

GzipLevels == {0, 1, 9, 10}

NextLevel ==
  \/ \E cfg \in DataConfigs : Construct(cfg)
  \/ Open
  \/ \E files \in {Some(<<PSmall>>), Some(<<PSmall, PMissing>>)} : ValidateBegin(files)
  \/ ValidateStat
  \/ ValidateHash
  \/ \E raw \in RawItemLists, gzip \in GzipItemLists, level \in GzipLevels :
       WriteOptions(raw, gzip, level)
  \/ \E ioOk \in BOOLEAN : ReadGzipData(ioOk, FALSE)

SpecLevel == InitCache /\ [][NextLevel]_vars

LevelOutOfRange == res.op = "write" /\ (res.gzipLevel < 1 \/ res.gzipLevel > 9)

(* C27 as stated: a write with a gzipLevel outside 1..9 fails with a       *)
(* RangeError.                                                             *)
C27_Original == LevelOutOfRange => res.thrown = "RangeError"

(* C27 amended: a write on a validated cache that is given at least one    *)
(* gzip item and a gzipLevel outside 1..9 fails with a RangeError; a write *)
(* with no gzip item does not look at gzipLevel and never fails with a     *)
(* RangeError, and a write before validate fails with the plain Error of   *)
(* C10 whatever the level.                                                 *)
C27_Amended ==
  res.op = "write" =>
    /\ (LevelOutOfRange /\ res.validated /\ res.gzipItems > 0) => res.thrown = "RangeError"
    /\ res.thrown = "RangeError" => (LevelOutOfRange /\ res.validated /\ res.gzipItems > 0)
    /\ ~res.validated => res.thrown = "Error"
    /\ (res.validated /\ res.gzipItems = 0) => res.thrown = ""

C27_Witness ==
  /\ LevelOutOfRange
  /\ res.gzipLevel = 0
  /\ res.validated
  /\ res.gzipItems > 0
  /\ res.thrown = "RangeError"

(* a level of 10 with no gzip item: the write went through *)
C27_IgnoredReached ==
  /\ LevelOutOfRange
  /\ res.gzipLevel = 10
  /\ res.validated
  /\ res.gzipItems = 0
  /\ res.thrown = ""
  /\ disk # None

----------------------------------------------------------------------------
(* FileHashCacheManager.  A JS number given as an option is the pair of    *)
(* its 16-bit halves counted from the low end: the value h * 2^16 + l with *)
(* l < 2^16 and h unbounded; a field of the manager is the integer the     *)
(* code computes.                                                          *)

Half == 256 * 256

Js(h, l) == [h |-> h, l |-> l]

(* n | 0: ToInt32, the low 32 bits read as a signed integer *)
ToInt32(n) ==
  LET h32 == n.h % Half
  IN IF h32 >= Half \div 2 THEN (h32 - Half) * Half + n.l ELSE h32 * Half + n.l

(* n >>> 0 where the code has n | 0: the low 32 bits read as unsigned, in  *)
(* halves                                                                  *)
ToUint32(n) == Js(n.h % Half, n.l)

(* i & 0xffffff for a 32-bit integer i *)
And24(i) == i % 16777216

(* options.x || 0 *)
OrZero(option) == IF option = None THEN Js(0, 0) ELSE option[1]

(* new FileHashCacheManager(options) *)
NewManager(options) ==
  /\ manager' =
       IF options = None
         THEN [given |-> options, version |-> 0, seedLow |-> 0, seedHigh |-> 0, uses |-> 0]
       ELSE [given |-> options,
             version |-> And24(ToInt32(OrZero(options[1].version))),
             seedLow |-> ToInt32(OrZero(options[1].seedLow)),
             seedHigh |-> ToInt32(OrZero(options[1].seedHigh)),
             uses |-> 0]
  /\ UNCHANGED <<fs, engineVars, cacheVars, io, init, codec, hasher>>

MaxUses == 2

(* a cache of the manager reads the version for a header and the seeds for *)
(* a digest: the fields are read, never assigned                           *)
UseManager ==
  /\ manager # None
  /\ manager.uses < MaxUses
  /\ manager' = [manager EXCEPT !.uses = @ + 1]
  /\ UNCHANGED <<fs, engineVars, cacheVars, io, init, codec, hasher>>

(* 42, 0x1ffffff, 0xffffffff *)
VersionsGiven == {None, Some(Js(0, 42)), Some(Js(511, 65535)), Some(Js(65535, 65535))}

(* 10, 0x7fffffff, 0x80000000, 0xffffffff, 2^32 + 5 *)
SeedsGiven ==
  {None, Some(Js(0, 10)), Some(Js(32767, 65535)), Some(Js(32768, 0)),
   Some(Js(65535, 65535)), Some(Js(65536, 5))}

InitManager ==
  /\ fs = CacheFiles
  /\ EngineIdle
  /\ CacheIdle
  /\ LibIdle

NextManager ==
  \/ NewManager(None)
  \/ \E v \in VersionsGiven, lo \in SeedsGiven, hi \in SeedsGiven :
       NewManager(Some([version |-> v, seedLow |-> lo, seedHigh |-> hi]))
  \/ UseManager

SpecManager == InitManager /\ [][NextManager]_vars

(* the low 24 bits of a number given in halves *)
Low24(n) == (n.h % 256) * Half + n.l

GivenOf(field) ==
  IF manager.given = None THEN Js(0, 0) ELSE OrZero(manager.given[1][field])

(* C28: a constructed manager holds version & 0xFFFFFF of the version      *)
(* given and each seed component as an unsigned 32-bit value, in           *)
(* 0..0xFFFFFFFF, and the three fields never change afterwards.            *)
C28_Normalized ==
  /\ [](manager # None =>
          /\ manager.version = Low24(GivenOf("version"))
          /\ manager.seedLow >= 0
          /\ manager.seedHigh >= 0)
  /\ [][manager # None /\ manager'.given = manager.given =>
          /\ manager'.version = manager.version
          /\ manager'.seedLow = manager.seedLow
          /\ manager'.seedHigh = manager.seedHigh]_vars

(* what the code does guarantee: the version is the low 24 bits, each seed *)
(* component is the signed 32-bit integer with the low 32 bits of the      *)
(* number given, and no use of the manager changes a field                 *)
NormalizedSigned ==
  /\ [](manager # None =>
          /\ manager.version = Low24(GivenOf("version"))
          /\ manager.version >= 0 /\ manager.version < 16777216
          /\ manager.seedLow = ToInt32(GivenOf("seedLow"))
          /\ manager.seedHigh = ToInt32(GivenOf("seedHigh"))
          /\ manager.seedLow >= 0 => Js(manager.seedLow \div Half, manager.seedLow % Half) = ToUint32(GivenOf("seedLow")))
  /\ [][manager # None /\ manager'.given = manager.given =>
          /\ manager'.version = manager.version
          /\ manager'.seedLow = manager.seedLow
          /\ manager'.seedHigh = manager.seedHigh]_vars

NormalizedSignedReached ==
  /\ manager # None
  /\ manager.uses = MaxUses
  /\ manager.given # None
  /\ manager.given[1].version = Some(Js(511, 65535))
  /\ manager.version = 16777215
  /\ manager.seedLow = 10

(* a seed component of 0xffffffff held as -1 *)
NegativeSeedReached ==
  /\ manager # None
  /\ manager.given # None
  /\ manager.given[1].seedLow = Some(Js(65535, 65535))
  /\ manager.seedLow = -1

----------------------------------------------------------------------------
(* C30: every worker thread of an invocation is joined before run returns. *)
(* When run has returned true no thread of the invocation is running and   *)
(* none was left behind, every output slot has been written, and the slab  *)
(* of read buffers, allocated while any thread is inside process_files, is *)
(* freed only then.                                                        *)
C30_JoinedBeforeReturn ==
  \A i \in Invocations :
    /\ (inv[i].pc \in {"returned", "settled"} /\ inv[i].runResult = "true") =>
         /\ inv[i].thr = EmptyBag
         /\ inv[i].left = 0
         /\ \A k \in DOMAIN inv[i].out : inv[i].out[k] # Uninit
         /\ inv[i].slab = "freed"
    /\ inv[i].thr # EmptyBag => (inv[i].pc = "running" /\ inv[i].slab = "allocated")
    /\ inv[i].slab = "freed" => inv[i].left = 0

C30_Witness ==
  \E i \in Invocations :
    /\ inv[i].pc = "returned"
    /\ inv[i].runResult = "true"
    /\ Len(inv[i].files) >= 3
    /\ inv[i].slab = "freed"
    /\ \A k \in DOMAIN inv[i].out : inv[i].out[k] # Uninit

(* one thread has left the loop while another is still hashing: run does   *)
(* not return here                                                         *)
C30_OneWaitingReached ==
  \E i \in Invocations :
    /\ inv[i].pc = "running"
    /\ AtExit \in Positions(i)
    /\ \E p \in Positions(i) : p # AtExit /\ p # AtClaim

----------------------------------------------------------------------------
(* The sizing of run over long lists.  The threads that were spawned are   *)
(* not scheduled here: an invocation that has spawned keeps the counter    *)
(* raised while the other one sizes itself.                                *)

ListMany == [k \in 1 .. 200 |-> IF k % 2 = 1 THEN PSmall ELSE PSmall2]

SizingLists == {ListThree, ListBatched, ListMany}

NextSizing(invs, lists, concs) ==
  \/ \E i \in invs, files \in lists, c \in concs : Call(i, files, c)
  \/ \E i \in invs : RunSize(i)
  \/ \E i \in invs : RunSlabFail(i)
  \/ \E i \in invs : RunSpawn(i)
  \/ \E i \in invs : Settle(i)
  \/ \E i \in invs : Return(i)

SpecSizing == InitEngine({1, 20}) /\ [][NextSizing({1, 2}, SizingLists, {0, 1, 20})]_vars

Clamp(x, lo, hi) == IF x < lo THEN lo ELSE IF x > hi THEN hi ELSE x

CeilDiv(n, d) == (n + d - 1) \div d

Sizes(i) == inv[i].pc = "execute" /\ inv'[i].pc = "sized"

KeepsSize(i) == inv[i].pc \in {"sized", "running"} /\ inv'[i].pc \in {"sized", "running"}

(* C31: an invocation that sizes itself over N files gets a batch of        *)
(* clamp(N / (T * 4), 1, 32) files, between 1 and 32, and a thread count T *)
(* with 1 <= T <= min(16, max(1, H - a), ceil(N / batch)), H being the      *)
(* hardware parallelism floored at 2 and a the value of the counter at the *)
(* load; the thread count and the batch then stay as they are until run    *)
(* returns.                                                                *)
C31_Sizing ==
  [][\A i \in Invocations :
      /\ Sizes(i) =>
            LET N == FileCount(i)
                T == inv'[i].tc
                batch == inv'[i].work_batch
                H == Max(2, hwRaw)
                a == gActive
            IN /\ 1 <= batch /\ batch <= 32
               /\ batch = Clamp(N \div (T * 4), 1, 32)
               /\ 1 <= T
               /\ T <= Min(16, Min(Max(1, H - a), CeilDiv(N, batch)))
      /\ KeepsSize(i) =>
            /\ inv'[i].tc = inv[i].tc
            /\ inv'[i].work_batch = inv[i].work_batch]_vars

(* both bounds are met: 200 files on one thread are claimed 32 at a time,  *)
(* while the other invocation, having loaded a counter of 16 on a machine  *)
(* of 20 processors, runs 4 threads                                        *)
C31_Witness ==
  /\ hwRaw = 20
  /\ inv[1].pc = "running" /\ inv[1].tc = 16
  /\ inv[2].pc = "sized" /\ gActive = 16 /\ inv[2].tc = 4
  /\ inv[2].files = ListMany /\ inv[2].work_batch = 12

(* the batch reaches its upper bound and the useful-thread cap binds *)
C31_CapsReached ==
  /\ inv[1].pc = "sized" /\ inv[1].files = ListMany /\ inv[1].work_batch = 32
  /\ inv[1].tc = 1
  /\ inv[2].pc = "sized" /\ inv[2].files = ListThree /\ inv[2].concurrency = 20
  /\ inv[2].tc = 3 /\ hwRaw = 20

----------------------------------------------------------------------------
(* The read buffers *)

SliceBytes == 256 * 1024

(* C32: while an invocation runs with T threads its slab is T slices of    *)
(* 256 KiB, thread i was given slice i, and the bytes a thread touches     *)
(* from its buffer on stay inside its slice: inside the slab and apart     *)
(* from the bytes of every other thread.                                   *)
C32_OwnSlice ==
  \A i \in Invocations :
    inv[i].pc = "running" =>
      LET T == inv[i].tc
          rbuf == inv[i].rbufs
          used == inv[i].touched
      IN /\ inv[i].slab = "allocated"
         /\ inv[i].slabLen = T * SliceBytes
         /\ Len(rbuf) = T /\ ThreadsOf(i) = T
         /\ \A t \in 1 .. T : rbuf[t] = (t - 1) * SliceBytes
         /\ used <= SliceBytes
         /\ \A t \in 1 .. T : 0 <= rbuf[t] /\ rbuf[t] + used <= inv[i].slabLen
         /\ \A t, u \in 1 .. T :
              t # u => (rbuf[t] + used <= rbuf[u] \/ rbuf[u] + used <= rbuf[t])

(* three threads, two of them hashing, and a buffer filled to its end *)
C32_Witness ==
  /\ inv[1].pc = "running" /\ inv[1].tc = 3
  /\ inv[1].touched = SliceBytes
  /\ \E p, q \in Positions(1) : p # q /\ p.pc = "hash" /\ q.pc = "hash"

----------------------------------------------------------------------------
(* open with I/O errors *)

OpenIOLists == {<< >>, <<PSmall, PMissing>>}

NextOpenIO ==
  \/ Open
  \/ \E k \in DOMAIN OpenSteps : OpenRejects(OpenSteps[k])
  \/ Close
  \/ \E files \in {None} \cup {Some(l) : l \in OpenIOLists} : ValidateBegin(files)
  \/ ValidateStat
  \/ ValidateHash
  \/ ValidateHashReject
  \/ Write
  \/ DeleteFile

SpecOpenIO == InitCache /\ [][NextOpenIO]_vars

IOFailed(steps) == {"io error: " \o OpenSteps[k] : k \in steps}

NoPreviousCache(c) ==
  /\ ~c.headerValid
  /\ c.oldPaths = None /\ c.oldEntries = None /\ c.oldDigest = None

(* C33: an open that met an I/O error, at whichever of its steps, resolves *)
(* and leaves the cache with headerValid false and no old digest, entries  *)
(* or paths, and a validate that runs on that open reports changed = true. *)
C33_IOFailureIsNoCache ==
  /\ res.op = "open" => res.error = << >>
  /\ (res.op = "open" /\ hist.opened \in IOFailed(1 .. 4)) => NoPreviousCache(cache)
  /\ (res.op = "validate" /\ res.error = << >> /\ res.opened \in IOFailed(1 .. 4)) => res.changed

(* the same for an error at the first two steps: opening the file and      *)
(* reading the header                                                      *)
IOFailureBeforeHeader ==
  /\ res.op = "open" => res.error = << >>
  /\ (res.op = "open" /\ hist.opened \in IOFailed(1 .. 2)) => NoPreviousCache(cache)
  /\ (res.op = "validate" /\ res.error = << >> /\ res.opened \in IOFailed(1 .. 2)) =>
        /\ res.changed
        /\ res.rehashed = Len(Statted(res))

IOFailureBeforeHeaderReached ==
  /\ res.op = "validate" /\ res.error = << >>
  /\ res.opened = "io error: header"
  /\ disk # None /\ Damage(disk, cache.cfg) = "ok"
  /\ res.changed /\ res.rehashed = 1

(* the entries cannot be read from a cache file that is up to date: the    *)
(* validate on that open hashes every file again and reports no change     *)
UnchangedAfterIOFailure ==
  /\ res.op = "validate" /\ res.error = << >>
  /\ res.opened = "io error: entries"
  /\ res.rehashed = 1
  /\ ~res.changed

----------------------------------------------------------------------------
(* write and the validated state *)

(* C34: a write on a validated cache returns with the validated paths,     *)
(* entries and digest as they were, so the cache is still validated, a     *)
(* write that follows needs no validate, and readFiles returns the         *)
(* validated list before and after.                                        *)
C34_WriteKeepsValidated ==
  [][(Write /\ HasValidState(cache)) =>
        /\ res'.op = "write" /\ res'.error = << >>
        /\ cache'.validPaths = cache.validPaths
        /\ cache'.validEntries = cache.validEntries
        /\ cache'.validDigest = cache.validDigest
        /\ HasValidState(cache')
        /\ readFiles(cache) = cache.validPaths[1]
        /\ readFiles(cache') = cache.validPaths[1]]_vars

(* a write has returned on a cache opened from an earlier file of other    *)
(* paths: readFiles returns the validated list, not the old one            *)
C34_Witness ==
  /\ res.op = "write" /\ res.error = << >>
  /\ HasValidState(cache)
  /\ readFiles(cache) = <<PSmall, PSmall2>>
  /\ cache.oldPaths # None /\ cache.oldPaths # cache.validPaths /\ Len(cache.oldPaths[1]) > 0
  /\ disk # None /\ disk[1].entryCount = 2

----------------------------------------------------------------------------
(* statAll, lane by lane.  A lane is a call of `worker`: it takes the next *)
(* index from the cursor, awaits fsStat of that path, stores the result at *)
(* that index and takes the next index, until the cursor has passed the    *)
(* last path.  The lanes run the same closure, so the state holds the      *)
(* indexes whose stat is awaited, one for each lane still in its loop.     *)

STAT_CONCURRENCY == 64

(* the completions that overtake an older stat still in flight *)
MaxOvertakes == 1

(* one lane for every path *)
LanesUnbounded(n) == n

(* lanes = Math.min(STAT_CONCURRENCY, n) *)
Lanes(n) == Min(STAT_CONCURRENCY, n)

(* statAll(paths) up to `await Promise.all(tasks)`: every lane has run to  *)
(* its first await                                                         *)
StatAllCall(paths) ==
  /\ vop.pc = "idle"
  /\ LET n == Len(paths)
         lanes == Lanes(n)
     IN vop' = [pc |-> "statAll", files |-> paths, oldMap |-> None,
                stats |-> [i \in 1 .. n |-> None], hashes |-> << >>, toHashIdx |-> << >>,
                cursor |-> lanes, inflight |-> 0 .. (lanes - 1),
                writes |-> [i \in 1 .. n |-> 0], overtakes |-> 0]
  /\ UNCHANGED <<fs, engineVars, libVars, disk, cache, res, hist>>

(* the fsStat of index i settles: the lane stores the result, or null when *)
(* it rejected, takes i = cursor++ and, if that is a path, calls fsStat    *)
StatSettles(i) ==
  /\ vop.pc = "statAll"
  /\ i \in vop.inflight
  /\ LET n == Len(vop.files)
         oldest == \A j \in vop.inflight : i <= j
         next == vop.cursor
     IN /\ oldest \/ vop.overtakes < MaxOvertakes
        /\ vop' = [vop EXCEPT
                     !.stats[i + 1] = StatOf(vop.files[i + 1]),
                     !.writes[i + 1] = @ + 1,
                     !.cursor = next + 1,
                     !.inflight = (@ \ {i}) \cup (IF next >= n THEN {} ELSE {next}),
                     !.overtakes = IF oldest THEN @ ELSE @ + 1]
  /\ UNCHANGED <<fs, engineVars, libVars, disk, cache, res, hist>>

(* every lane has left its loop: Promise.all resolves, statAll returns     *)
(* the results                                                             *)
StatAllReturn ==
  /\ vop.pc = "statAll"
  /\ vop.inflight = {}
  /\ res' = [NoResult EXCEPT !.op = "statAll", !.files = vop.files, !.stats = vop.stats]
  /\ vop' = IdleValidate
  /\ UNCHANGED <<fs, engineVars, libVars, disk, cache, hist>>

ListSixtyFive ==
  [k \in 1 .. 65 |-> IF k % 3 = 1 THEN PSmall ELSE IF k % 3 = 2 THEN PMissing ELSE PSmall2]

StatLists == {<< >>, <<PSmall, PMissing, PSmall2>>, ListSixtyFive}

NextStat ==
  \/ \E paths \in StatLists : StatAllCall(paths)
  \/ \E i \in 0 .. (Len(ListSixtyFive) - 1) : StatSettles(i)
  \/ StatAllReturn

SpecStat == InitCache /\ [][NextStat]_vars

StatRunning == vop.pc = "statAll"

(* C35: while statAll runs over N paths at most min(64, N) stats are in    *)
(* flight, no index is written twice, a result that is written is the stat *)
(* of the path at its index, and when every lane is done every index has   *)
(* been written exactly once; the results returned are those of the paths  *)
(* in input order.                                                         *)
C35_BoundedStat ==
  /\ StatRunning =>
        LET N == Len(vop.files) IN
        /\ Cardinality(vop.inflight) <= (IF N < 64 THEN N ELSE 64)
        /\ \A i \in 1 .. N :
             /\ vop.writes[i] <= 1
             /\ vop.writes[i] = 1 => vop.stats[i] = StatOf(vop.files[i])
             /\ vop.writes[i] = 0 => (i - 1 \in vop.inflight \/ i - 1 >= vop.cursor)
        /\ vop.inflight = {} => \A i \in 1 .. N : vop.writes[i] = 1
  /\ res.op = "statAll" =>
        /\ Len(res.stats) = Len(res.files)
        /\ \A i \in 1 .. Len(res.files) : res.stats[i] = StatOf(res.files[i])
        /\ res.stats = statAll(res.files)

(* 64 stats are in flight over 65 paths, one of them having completed      *)
(* before an older one                                                     *)
C35_Witness ==
  /\ StatRunning
  /\ Len(vop.files) = 65
  /\ Cardinality(vop.inflight) = 64
  /\ vop.overtakes = 1
  /\ 64 \in vop.inflight
  /\ vop.writes[1] = 0 /\ vop.stats[1] = None

(* the call over 65 paths has returned, with a path that does not exist *)
C35_ReturnedReached ==
  /\ res.op = "statAll"
  /\ Len(res.files) = 65
  /\ res.stats[2] = None /\ res.stats[64] # None

----------------------------------------------------------------------------
(* The item stream, byte by byte: an item is its tag, the length of its    *)
(* payload as a u32 LE, and the payload.                                   *)

T_JSON == 2

T_NULL == 3

T_UNDEFINED == 4

JsonItem(v) == [kind |-> "json", val |-> v]

NullItem == [kind |-> "null", val |-> << >>]

UndefinedItem == [kind |-> "undefined", val |-> << >>]

(* v.setUint32(off + 1, b.length, true) *)
SetUint32(n) ==
  <<n % 256, (n \div 256) % 256, (n \div (256 * 256)) % 256, (n \div (256 * 256 * 256)) % 256>>

(* v.getUint32(off, true), off counted from 0 *)
GetUint32(data, off) ==
  data[off + 1] + 256 * data[off + 2] + 256 * 256 * data[off + 3]
    + 256 * 256 * 256 * data[off + 4]

(* the tag of an item as serializeItems chooses it *)
TagOf(item) ==
  IF item.kind = "null" THEN T_NULL
  ELSE IF item.kind = "undefined" THEN T_UNDEFINED
  ELSE IF item.kind = "buffer" THEN T_BUFFER
  ELSE IF item.kind = "string" THEN T_STRING
  ELSE T_JSON

(* serializeItems(items), as bytes; the payload of a string is its UTF-8   *)
(* bytes and that of a structured value its JSON text                      *)
RECURSIVE serializeItemBytes(_)
serializeItemBytes(items) ==
  IF items = << >> THEN << >>
  ELSE <<TagOf(Head(items))>> \o SetUint32(Len(Head(items).val)) \o Head(items).val
         \o serializeItemBytes(Tail(items))

(* JSON.parse of a text of the digit 1 repeated is a number; a text with   *)
(* any other of the bytes used here, and the empty text, is a SyntaxError  *)
JsonParses(text) == Len(text) > 0 /\ \A k \in 1 .. Len(text) : text[k] = 49

(* parseItems(data, offset, count), from the item at off with the items    *)
(* parsed so far: what it returns or the error it throws                   *)
RECURSIVE parseItemBytes(_, _, _, _)
parseItemBytes(data, off, count, items) ==
  IF Len(items) >= count THEN [thrown |-> "", items |-> items]
  ELSE IF off + 5 > Len(data) THEN [thrown |-> "RangeError", items |-> << >>]
  ELSE
    LET tag == data[off + 1]
        len == GetUint32(data, off + 1)
        body == off + 5
    IN IF body + len > Len(data) THEN [thrown |-> "RangeError", items |-> << >>]
       ELSE
         LET payload == SubSeq(data, body + 1, Min(body + len, Len(data)))
             next == body + len
         IN IF tag = T_NULL THEN parseItemBytes(data, next, count, Append(items, NullItem))
            ELSE IF tag = T_UNDEFINED
              THEN parseItemBytes(data, next, count, Append(items, UndefinedItem))
            ELSE IF tag = T_BUFFER
              THEN parseItemBytes(data, next, count, Append(items, BufferItem(payload)))
            ELSE IF tag = T_STRING
              THEN parseItemBytes(data, next, count, Append(items, StringItem(payload)))
            ELSE IF tag = T_JSON
              THEN IF JsonParses(payload)
                     THEN parseItemBytes(data, next, count, Append(items, JsonItem(payload)))
                     ELSE [thrown |-> "SyntaxError", items |-> << >>]
            ELSE [thrown |-> "RangeError", items |-> << >>]

(* parseItems(data, 0, count) is called, once *)
ParseItems(data, count) ==
  /\ res.op = "none"
  /\ LET r == parseItemBytes(data, 0, count, << >>)
     IN res' = [NoResult EXCEPT !.op = "parseItems",
                                !.input = Some([data |-> data, count |-> count]),
                                !.thrown = r.thrown, !.items = r.items]
  /\ UNCHANGED <<fs, engineVars, libVars, disk, cache, vop, hist>>

(* the items written: null, undefined, an empty Buffer, the string "a",    *)
(* the number 1                                                            *)
ItemValues == {NullItem, UndefinedItem, BufferItem(<< >>), StringItem(<<97>>), JsonItem(<<49>>)}

RECURSIVE ItemListsOf(_)
ItemListsOf(n) ==
  IF n = 0 THEN {<< >>}
  ELSE LET shorter == ItemListsOf(n - 1)
       IN shorter \cup {Append(l, v) : l \in {x \in shorter : Len(x) = n - 1}, v \in ItemValues}

(* the bytes a damaged stream holds in place of one of its own: zero, the  *)
(* tag of JSON, the digit 1, and a byte that is no tag                     *)
PokeBytes == {0, 2, 49, 9}

(* the streams of the item lists, whole, cut at any byte, or with one byte *)
(* replaced                                                                *)
StreamsOf(n) ==
  LET whole == {serializeItemBytes(l) : l \in ItemListsOf(n)}
  IN whole
     \cup UNION {{SubSeq(s, 1, k) : k \in 0 .. Len(s)} : s \in whole}
     \cup UNION {{[s EXCEPT ![k] = b] : k \in 1 .. Len(s), b \in PokeBytes} : s \in whole}

NextItems ==
  /\ res.op = "none"
  /\ \E data \in StreamsOf(MaxItems), count \in 0 .. (MaxItems + 1) : ParseItems(data, count)

SpecItems == InitCache /\ [][NextItems]_vars

(* the item stream of the last parse *)
Parsed == res.input[1]

(* where item i of the stream starts if the items before it are framed as  *)
(* their headers say; the end of the data if one of them is not            *)
RECURSIVE ItemStart(_, _)
ItemStart(data, i) ==
  IF i = 0 THEN 0
  ELSE LET off == ItemStart(data, i - 1)
       IN IF off + 5 > Len(data) THEN Len(data)
          ELSE Min(Len(data), off + 5 + GetUint32(data, off + 1))

HeaderPastEnd(data, i) == ItemStart(data, i) + 5 > Len(data)

PayloadPastEnd(data, i) ==
  /\ ~HeaderPastEnd(data, i)
  /\ ItemStart(data, i) + 5 + GetUint32(data, ItemStart(data, i) + 1) > Len(data)

UnknownTag(data, i) ==
  /\ ~HeaderPastEnd(data, i)
  /\ data[ItemStart(data, i) + 1] \notin {T_BUFFER, T_STRING, T_JSON, T_NULL, T_UNDEFINED}

(* item i of the stream is one of the faults: its header or its payload    *)
(* runs past the end of the data, or its tag is unknown                    *)
Faulty(data, i) == HeaderPastEnd(data, i) \/ PayloadPastEnd(data, i) \/ UnknownTag(data, i)

Corrupted(data, count) == \E i \in 0 .. (count - 1) : Faulty(data, i)

(* a JSON item of the stream, before item i, whose payload is not JSON *)
BadJsonBefore(data, i) ==
  \E k \in 0 .. (i - 1) :
    /\ ~Faulty(data, k)
    /\ data[ItemStart(data, k) + 1] = T_JSON
    /\ ~JsonParses(SubSeq(data, ItemStart(data, k) + 6, ItemStart(data, k + 1)))

(* C36: parseItems of a stream in which one of the count items has a       *)
(* header or a payload that runs past the end of the data, or an unknown   *)
(* tag, throws a RangeError.                                               *)
C36_CorruptedIsRange ==
  (res.op = "parseItems" /\ Corrupted(Parsed.data, Parsed.count)) => res.thrown = "RangeError"

(* the same when no JSON item before the first fault has a payload that is *)
(* not JSON; and a stream without a fault never throws a RangeError        *)
CorruptedIsRangeUnlessJson ==
  res.op = "parseItems" =>
    LET data == Parsed.data
        count == Parsed.count
        faults == {i \in 0 .. (count - 1) : Faulty(data, i)}
    IN /\ (faults # {} /\ ~BadJsonBefore(data, CHOOSE i \in faults : \A j \in faults : i <= j))
            => res.thrown = "RangeError"
       /\ faults = {} => res.thrown \in {"", "SyntaxError"}
       /\ (faults = {} /\ ~BadJsonBefore(data, count)) =>
            (res.thrown = "" /\ Len(res.items) = count)

(* each fault is met in the second item of a stream *)
CorruptedIsRangeUnlessJsonReached ==
  /\ res.op = "parseItems" /\ res.thrown = "RangeError"
  /\ Parsed.count = 2
  /\ ~Faulty(Parsed.data, 0)
  /\ UnknownTag(Parsed.data, 1)

TruncatedPayloadReached ==
  /\ res.op = "parseItems" /\ res.thrown = "RangeError"
  /\ Parsed.count = 2
  /\ ~Faulty(Parsed.data, 0)
  /\ PayloadPastEnd(Parsed.data, 1)

(* a JSON item that does not parse, before an item whose header is cut *)
SyntaxErrorBeforeFault ==
  /\ res.op = "parseItems" /\ res.thrown = "SyntaxError"
  /\ Parsed.count = 2
  /\ HeaderPastEnd(Parsed.data, 1)

----------------------------------------------------------------------------
(* close and the calls in flight *)

(* the last validate to complete had begun before a close that completed   *)
(* while it was awaiting, and neither open nor close was called after      *)
(* that close                                                              *)
CompletedOverClose ==
  /\ res.op = "validate" /\ res.error = << >>
  /\ res.opened = "interleaved"
  /\ hist.opened = "unopened"

(* C37: when close has completed the cache holds no validated state until  *)
(* validate is called again: not right after the close, and not when a     *)
(* validate that was in flight during the close completes.                 *)
C37_ClosedHoldsNothing ==
  /\ res.op = "close" => ~HasValidState(cache)
  /\ CompletedOverClose => ~HasValidState(cache)

(* when close has completed, and until a validate completes, the cache     *)
(* holds no validated state and no handle                                  *)
ClosedUntilValidated ==
  /\ res.op = "close" => (cache = FreshCache(cache.cfg) /\ ~HasValidState(cache))
  /\ (hist.opened = "unopened" /\ ~hist.validated) => ~HasValidState(cache)

ClosedUntilValidatedReached ==
  /\ res.op = "close"
  /\ vop.pc = "hash"
  /\ ~HasValidState(cache)

(* a write succeeds after the close, with no validate called since *)
WrittenAfterClose ==
  /\ res.op = "write" /\ res.error = << >>
  /\ hist.opened = "unopened" /\ hist.begunOpened = "interleaved"
  /\ cache.validPaths # None /\ Len(cache.validPaths[1]) > 0
  /\ ~cache.fh

----------------------------------------------------------------------------
(* updateFilesBulk failing on the caller's buffer *)

(* the step settles an instance updateFilesBulk with a RangeError *)
BulkRangeError ==
  /\ hasher'.last # None
  /\ hasher'.last # hasher.last
  /\ hasher'.last[1].op = "updateFilesBulk"
  /\ hasher'.last[1].settled = "RangeError"

StreamUnchanged ==
  /\ hasher'.state = hasher.state
  /\ hasher'.updates = hasher.updates

(* C38: when instance updateFilesBulk fails with a RangeError because the  *)
(* caller's output buffer is too small, the streaming state is unchanged:  *)
(* no block of per-file hashes has been fed, in either backend.            *)
C38_RangeErrorFeedsNothing ==
  [][BulkRangeError => StreamUnchanged]_vars

(* the native backend rejects before anything is queued, and feeds nothing *)
NativeRangeErrorFeedsNothing ==
  [][(BulkRangeError /\ hasher.backend = "native")
       => (StreamUnchanged /\ hasher.call = None)]_vars

NativeRangeErrorReached ==
  /\ hasher.backend = "native"
  /\ hasher.last # None
  /\ hasher.last[1].op = "updateFilesBulk"
  /\ hasher.last[1].settled = "RangeError"
  /\ hasher.last[1].files = <<PSmall>>
  /\ hasher.updates = << >>

(* the portable backend has fed the block when it throws *)
BaseFedBeforeRangeError ==
  /\ hasher.backend = "wasm"
  /\ hasher.last # None
  /\ hasher.last[1].op = "updateFilesBulk"
  /\ hasher.last[1].settled = "RangeError"
  /\ Len(hasher.updates) = 1
  /\ hasher.updates[1].by = "bulk"
  /\ hasher.state[1].fed = hasher.updates[1].block

----------------------------------------------------------------------------
(* run when the slab cannot be allocated *)

(* the step in which run of invocation i returns false *)
ReturnsFalse(i) ==
  /\ inv[i].pc = "sized"
  /\ inv'[i].pc = "returned"
  /\ inv'[i].runResult = "false"

(* C39: when the slab cannot be allocated run returns with the counter of  *)
(* active threads as it found it and without having spawned a thread: the  *)
(* failed invocation has added nothing to the counter, which goes on       *)
(* holding the threads of the invocations that are running.                *)
C39_SlabFailureLeavesCounter ==
  [][\A i \in Invocations :
       ReturnsFalse(i) =>
         /\ gActive' = gActive
         /\ inv[i].thr = EmptyBag /\ inv'[i].thr = EmptyBag
         /\ inv'[i].slab = "none"
         /\ inv'[i].out = inv[i].out
         /\ \A j \in Invocations \ {i} : inv'[j] = inv[j]
    ]_vars

(* run of one invocation has returned false while the other is running and *)
(* holds the counter                                                       *)
C39_Witness ==
  /\ inv[1].pc = "returned" /\ inv[1].runResult = "false"
  /\ inv[1].thr = EmptyBag
  /\ inv[2].pc = "running" /\ inv[2].tc = 3
  /\ gActive = 3

----------------------------------------------------------------------------
(* the claim loop *)

ClaimLists == {ListThree, ListBatched}

(* one invocation whose threads are scheduled: a thread that can take its  *)
(* next step takes it                                                      *)
SpecClaim ==
  /\ InitEngine({1, 3})
  /\ [][NextEngine({1}, ClaimLists, {1, 2, 20})]_vars
  /\ WF_vars(Claim(1))
  /\ WF_vars(\E p \in Positions(1) : HashFile(1, p))

(* every thread has left its loop *)
LoopsLeft(i) == Positions(i) \subseteq {AtExit}

(* the fetch_adds an invocation of T threads over N files can make *)
MaxFetches(i) == CeilDiv(FileCount(i), inv[i].work_batch) + inv[i].tc

ClaimsBounded(i) ==
  /\ inv[i].work_batch >= 1
  /\ inv[i].next_index = inv[i].fetches * inv[i].work_batch
  /\ inv[i].fetches <= MaxFetches(i)
  /\ inv[i].next_index <= MaxFetches(i) * inv[i].work_batch
  /\ inv[i].next_index < FileCount(i) + (inv[i].tc + 1) * inv[i].work_batch

(* C40 as stated: at most ceil(N / batch) + T fetch_adds, and next_index   *)
(* never above N + T * batch.                                              *)
C40_Original ==
  inv[1].pc = "running" =>
    /\ inv[1].fetches <= MaxFetches(1)
    /\ inv[1].next_index <= FileCount(1) + inv[1].tc * inv[1].work_batch

(* C40: the claim loop of every thread ends: each fetch_add moves          *)
(* next_index on by batch >= 1, an invocation of T threads over N files    *)
(* makes at most ceil(N / batch) + T of them, and next_index never exceeds *)
(* (ceil(N / batch) + T) * batch, which is below N + (T + 1) * batch.      *)
C40_Amended ==
  /\ [](inv[1].pc = "running" => ClaimsBounded(1))
  /\ (inv[1].pc = "running") ~> LoopsLeft(1)

(* every thread has left, after the most fetch_adds there can be, with     *)
(* next_index past N + T * batch                                           *)
C40_Witness ==
  /\ inv[1].pc = "running"
  /\ LoopsLeft(1)
  /\ inv[1].files = ListBatched
  /\ inv[1].tc = 2 /\ inv[1].work_batch = 2
  /\ inv[1].fetches = MaxFetches(1)
  /\ inv[1].next_index = 22

====
